---------------------------- MODULE Spec2Model ----------------------------
(***************************************************************************)
(* primecount: the bit sieve (src/src/BitSieve.cpp), the compressed        *)
(* PrimePi table (src/src/PiTable.cpp) and the parallel LMO special-leaf   *)
(* sum S2 (pi_lmo_parallel3.cpp, src/unnamed/part_000).                    *)
(*                                                                         *)
(* A 64-bit word is modelled as the set of its 1-bit positions, a subset   *)
(* of 0..63: w & m is intersection, w | m union, ~w complement, popcount   *)
(* cardinality and a shift moves the positions.                            *)
(***************************************************************************)
EXTENDS Integers, Sequences, FiniteSets, TLC

VARIABLES
  bits_,      \* BitSieve::bits_ : sequence of 64-bit words (word k = Seq index k+1)
  size_,      \* BitSieve::size_
  bs_low,     \* argument of the last BitSieve::memset
  bs_unsets,  \* number of unset(i) calls since the last memset
  bs_call,    \* the last BitSieve::count call: [start, stop, ret], or <<>> if none
  \* ---- PiTable ----
  pi_,        \* PiTable::pi_ : sequence of pi_t = [count, bits] (word w = Seq index w+1)
  counts_,    \* PiTable::counts_ : per-thread prime counts (index t+1)
  max_x_,     \* PiTable::max_x_
  pt_pc,      \* "new", "bits" (first omp for), "count" (second omp for), "done"
  pt_arg,     \* the constructor's (max_x, threads) and init's locals
  pt_todo,    \* iterations t of the running omp for that have not run yet
  pt_scan,    \* the pi(n) queries made so far: [w |-> next word, ref |-> primes below it]
  \* ---- pi_lmo_parallel3 ----
  s2_pc,      \* S2: "idle", "wave" (while test), "par" (parallel for), "combine", "done"
  s2_in,      \* S2's arguments and the locals it never changes (limit, sqrt_limit, pi_sqrty)
  low,        \* S2::low
  threads,    \* S2::threads
  segment_size,
  segments_per_thread,
  S2_total,
  phi_total,  \* S2::phi_total, indices 0 .. pi_y
  phi,        \* S2::phi : phi[i] is the vector of worker i (indices 0 .. size-1)
  mu_sum,     \* S2::mu_sum
  wk,         \* the locals of each S2_thread call of the running wave; its pc is "call",
              \* "segment", "loop1", "loop2", "next_segment" or "ret"
  s2_i,       \* the index i of the combine loop
  s2_first,   \* the result of an earlier S2 call with the same x, y, c (or <<>>)
  lmo,        \* pi_lmo_parallel3: its argument x and, once it returned, its result
  \* ---- S2_thread, one call, leaf by leaf ----
  sg,         \* the arguments and locals of the call and where it is, or <<>>
  \* ---- RiemannR_inverse ----
  rr          \* the argument and locals of the call and where it is, or <<>>

bsVars == <<bits_, size_, bs_low, bs_unsets, bs_call>>
ptVars == <<pi_, counts_, max_x_, pt_pc, pt_arg, pt_todo, pt_scan>>

s2Vars == <<s2_pc, s2_in, low, threads, segment_size, segments_per_thread, S2_total,
            phi_total, phi, mu_sum, wk, s2_i, s2_first, lmo>>

sgVars == <<sg>>

rrVars == <<rr>>

vars == <<bsVars, ptVars, s2Vars, sgVars, rrVars>>

\* a component that is not running
SGIdle == sg = <<>>
RRIdle == rr = <<>>
BSIdle ==
  /\ bits_ = <<>> /\ size_ = 0 /\ bs_low = -1 /\ bs_unsets = 0 /\ bs_call = <<>>
PTIdle ==
  /\ pi_ = <<>> /\ counts_ = <<>> /\ max_x_ = 0 /\ pt_pc = "idle"
  /\ pt_arg = <<>> /\ pt_todo = {} /\ pt_scan = <<>>
S2Idle ==
  /\ s2_pc = "idle" /\ s2_in = <<>> /\ low = 0 /\ threads = 0 /\ segment_size = 0
  /\ segments_per_thread = 0 /\ S2_total = 0 /\ phi_total = <<>> /\ phi = <<>>
  /\ mu_sum = <<>> /\ wk = <<>> /\ s2_i = 0 /\ s2_first = <<>> /\ lmo = <<>>

(***************************************************************************)
(* Bounds of the model                                                     *)
(***************************************************************************)
BSSize == 130       \* size of the bit sieve under test (3 words, the last partial)
BSMaxLow == 3       \* memset(low) is called with low in 0..BSMaxLow
BSMaxUnsets == 1    \* unset(i) calls between a memset and the counts

(***************************************************************************)
(* Integer helpers                                                         *)
(***************************************************************************)
Min(a, b) == IF a < b THEN a ELSE b
Max(a, b) == IF a > b THEN a ELSE b

ceil_div(a, b) == (a + b - 1) \div b

(***************************************************************************)
(* 64-bit words                                                            *)
(***************************************************************************)
WordBits == 64
BitPos == 0 .. (WordBits - 1)

AllOnes == BitPos                                  \* 0xffffffffffffffff
Pattern5 == {i \in BitPos : i % 2 = 0}             \* 0x5555555555555555
PatternA == {i \in BitPos : i % 2 = 1}             \* 0xAAAAAAAAAAAAAAAA

Shl(w, k) == {i + k : i \in w} \cap BitPos         \* w << k
Shr(w, k) == {i - k : i \in w} \cap BitPos         \* w >> k
Not(w) == BitPos \ w                               \* ~w
OneShl(k) == {k} \cap BitPos                       \* 1 << k
\* w - 1 for a word w with a single 1-bit: the bits below it
MinusOne(w) == {i \in BitPos : \A j \in w : i < j}
popcount64(w) == Cardinality(w)

unset_bit_(k) == Not(OneShl(k))

(***************************************************************************)
(* BitSieve                                                                *)
(***************************************************************************)
\* BitSieve::BitSieve(size): ceil_div(size, 64) zero words
BitSieveNew(size) == [k \in 1 .. ceil_div(size, WordBits) |-> {}]

\* word index k (0-based) of a bit vector
Word(bits, k) == bits[k + 1]

\* BitSieve::operator[](pos)
BitTest(bits, pos) == (pos % WordBits) \in Word(bits, pos \div WordBits)

\* BitSieve::unset(pos): bits_[pos >> 6] &= unset_bit_[pos & 63]
BitUnset(bits, pos) ==
  [bits EXCEPT ![(pos \div WordBits) + 1] = @ \cap unset_bit_(pos % WordBits)]

\* a memset that forgets to clear the bits of 0 and 1
MemsetNoClear(bits, lo) ==
  LET fill == [k \in DOMAIN bits |-> IF lo % 2 = 1 THEN Pattern5 ELSE PatternA]
  IN IF lo <= 2
       THEN [fill EXCEPT ![1] = @ \cup OneShl(2 - lo)]
       ELSE fill

\* BitSieve::memset(low)
Memset(bits, lo) ==
  LET fill == [k \in DOMAIN bits |-> IF lo % 2 = 1 THEN Pattern5 ELSE PatternA]
  IN IF lo <= 2
       THEN LET bit == OneShl(2 - lo)
            IN [fill EXCEPT ![1] = (@ \cap Not(MinusOne(bit))) \cup bit]
       ELSE fill

\* BitSieve::count_edges(start, stop)
count_edges(bits, start, stop) ==
  LET index1 == start \div WordBits
      index2 == stop \div WordBits
      mask1 == Shl(AllOnes, start % WordBits)
      mask2 == Shr(AllOnes, (WordBits - 1) - (stop % WordBits))
  IN IF index1 = index2
       THEN popcount64(Word(bits, index1) \cap (mask1 \cap mask2))
       ELSE popcount64(Word(bits, index1) \cap mask1)
            + popcount64(Word(bits, index2) \cap mask2)

RECURSIVE SumPop(_, _, _)
\* the loop of BitSieve::count: popcounts of the words i .. limit-1
SumPop(bits, i, limit) ==
  IF i >= limit THEN 0
  ELSE popcount64(Word(bits, i)) + SumPop(bits, i + 1, limit)

\* a count whose loop also takes the word of stop (i <= limit)
CountInclusiveLoop(bits, start, stop) ==
  IF start > stop THEN 0
  ELSE count_edges(bits, start, stop)
       + SumPop(bits, (start \div WordBits) + 1, (stop \div WordBits) + 1)

\* BitSieve::count(start, stop)
Count(bits, start, stop) ==
  IF start > stop THEN 0
  ELSE count_edges(bits, start, stop)
       + SumPop(bits, (start \div WordBits) + 1, stop \div WordBits)

(***************************************************************************)
(* The bit sieve on its own: memset, unset and count calls                 *)
(***************************************************************************)
BSInit ==
  /\ size_ = BSSize
  /\ bits_ = BitSieveNew(BSSize)
  /\ bs_low = -1
  /\ bs_unsets = 0
  /\ bs_call = <<>>

BSMemset(lo) ==
  /\ bits_' = Memset(bits_, lo)
  /\ bs_low' = lo
  /\ bs_unsets' = 0
  /\ bs_call' = <<>>
  /\ UNCHANGED size_

BSUnset(pos) ==
  /\ bs_low >= 0
  /\ bs_unsets < BSMaxUnsets
  /\ bs_call = <<>>
  /\ bits_' = BitUnset(bits_, pos)
  /\ bs_unsets' = bs_unsets + 1
  /\ UNCHANGED <<size_, bs_low, bs_call>>

BSCount(start, stop) ==
  /\ bs_low >= 0
  /\ bs_call = <<>>
  /\ bs_call' = <<start, stop, Count(bits_, start, stop)>>
  /\ UNCHANGED <<bits_, size_, bs_low, bs_unsets>>

\* the two sides of the first word boundary, where unset is tried
BSEdge == {WordBits - 1, WordBits}

\* count arguments next to a word boundary and in the middle of a word
BSArgs ==
  {i \in 0 .. (size_ - 1) :
     i % WordBits \in {0, 1, WordBits \div 2, WordBits - 2, WordBits - 1}}
    \cup {size_ - 1}

BSNext ==
  \/ \E lo \in 0 .. BSMaxLow : BSMemset(lo) /\ UNCHANGED <<ptVars, s2Vars, sgVars, rrVars>>
  \/ \E pos \in BSEdge : BSUnset(pos) /\ UNCHANGED <<ptVars, s2Vars, sgVars, rrVars>>
  \/ /\ bs_call = <<>>
     /\ \E start \in 0 .. (size_ - 1) : \E stop \in BSArgs : BSCount(start, stop)
     /\ UNCHANGED <<ptVars, s2Vars, sgVars, rrVars>>
  \/ /\ bs_call = <<>>
     /\ \E start \in BSArgs : \E stop \in 0 .. (size_ - 1) : BSCount(start, stop)
     /\ UNCHANGED <<ptVars, s2Vars, sgVars, rrVars>>

InitBitSieve == BSInit /\ PTIdle /\ S2Idle /\ SGIdle /\ RRIdle

SpecBitSieve == InitBitSieve /\ [][BSNext]_vars

(***************************************************************************)
(* C6: BitSieve::count(start, stop) is the number of set bits at the       *)
(* indices of the inclusive range [start, stop], and 0 when start > stop.  *)
(***************************************************************************)
BitsIn(bits, start, stop) ==
  Cardinality({i \in start .. stop : BitTest(bits, i)})

C6_CountIsPopcountOfRange ==
  bs_call # <<>> =>
    bs_call[3] = IF bs_call[1] > bs_call[2] THEN 0
                 ELSE BitsIn(bits_, bs_call[1], bs_call[2])

\* a count over a range with full words strictly between start's and stop's word,
\* on a sieve that had a bit cleared, returning a nonzero number
C6_Witness ==
  /\ bs_call # <<>>
  /\ bs_unsets = 1
  /\ (bs_call[2] \div WordBits) >= (bs_call[1] \div WordBits) + 2
  /\ bs_call[1] % WordBits # 0
  /\ bs_call[3] > WordBits \div 2

(***************************************************************************)
(* C7: after memset(low) bit i is set iff low + i = 2 or low + i is odd    *)
(* and >= 3, for every i in [0, size) and low of either parity.            *)
(***************************************************************************)
C7_MemsetPattern ==
  (bs_low >= 0 /\ bs_unsets = 0) =>
    \A i \in 0 .. (size_ - 1) :
      BitTest(bits_, i) <=>
        (bs_low + i = 2 \/ (bs_low + i >= 3 /\ (bs_low + i) % 2 = 1))

C7_Witness ==
  /\ bs_low = 1
  /\ bs_unsets = 0
  /\ ~BitTest(bits_, 0)
  /\ BitTest(bits_, 1)
  /\ BitTest(bits_, 2)
  /\ ~BitTest(bits_, 3)

(***************************************************************************)
(* Reference arithmetic                                                    *)
(***************************************************************************)
RECURSIVE isqrt(_)
\* floor of the square root
isqrt(n) ==
  IF n < 2 THEN n
  ELSE LET r == 2 * isqrt(n \div 4)
       IN IF (r + 1) * (r + 1) <= n THEN r + 1 ELSE r

IsPrime(n) == n >= 2 /\ \A d \in 2 .. isqrt(n) : n % d # 0

(***************************************************************************)
(* PiTable                                                                 *)
(***************************************************************************)
PTMaxThreads == 3      \* PiTable(max_x, threads) is called with threads in 1..PTMaxThreads
PTExtra == 1210        \* the largest max_x is cache_limit + PTExtra
\* (uint64_t) 1e7 in PiTable::init; scaled down so that the tables of the model
\* are split among several threads
thread_threshold == 240

WordSpan == 240        \* one pi_ word stands for an interval of 30 * 8 = 240 numbers
CacheWords == 128      \* pi_cache_.size()

\* the 8 bits of each byte stand for these offsets mod 30
Offsets == <<1, 7, 11, 13, 17, 19, 23, 29>>

\* the number (relative to its word's interval) that bit p of a word stands for
BitResidue(p) == 30 * (p \div 8) + Offsets[(p % 8) + 1]

\* the word whose hex digits are hex, most significant digit first
HexBits(hex) == {p \in BitPos : (hex[16 - (p \div 4)] \div (2 ^ (p % 4))) % 2 = 1}

\* PiTable::pi_cache_, each entry { bit_count, bits } with bits in hex digits
pi_cache_hex ==
  <<
  [count |-> 3, hex |-> <<15, 9, 3, 13, 13, 11, 11, 6, 7, 14, 14, 15, 13, 15, 15, 14>>],
  [count |-> 52, hex |-> <<9, 14, 14, 13, 10, 6, 14, 10, 15, 3, 1, 14, 4, 15, 13, 5>>],
  [count |-> 92, hex |-> <<10, 5, 5, 9, 13, 13, 3, 11, 13, 3, 13, 3, 0, 12, 14, 6>>],
  [count |-> 128, hex |-> <<5, 6, 10, 6, 1, 14, 7, 8, 11, 13, 9, 2, 6, 7, 6, 10>>],
  [count |-> 162, hex |-> <<5, 5, 4, 12, 2, 10, 13, 14, 2, 13, 10, 13, 14, 3, 5, 6>>],
  [count |-> 196, hex |-> <<15, 8, 10, 1, 5, 4, 0, 3, 9, 15, 15, 0, 10, 3, 13, 9>>],
  [count |-> 228, hex |-> <<3, 10, 1, 3, 15, 6, 6, 6, 14, 9, 4, 4, 15, 13, 2, 14>>],
  [count |-> 263, hex |-> <<5, 4, 11, 15, 1, 1, 4, 5, 3, 10, 2, 11, 4, 12, 11, 8>>],
  [count |-> 293, hex |-> <<4, 15, 8, 12, 11, 12, 12, 8, 11, 3, 7, 10, 12, 1, 8, 12>>],
  [count |-> 325, hex |-> <<14, 15, 1, 7, 12, 1, 9, 11, 7, 1, 7, 1, 5, 8, 2, 1>>],
  [count |-> 357, hex |-> <<4, 6, 8, 12, 8, 3, 14, 5, 0, 8, 1, 10, 9, 6, 5, 4>>],
  [count |-> 382, hex |-> <<8, 7, 5, 8, 8, 15, 9, 2, 6, 5, 10, 14, 15, 11, 7, 2>>],
  [count |-> 417, hex |-> <<10, 0, 14, 3, 2, 6, 6, 5, 8, 1, 13, 8, 9, 2, 13, 2>>],
  [count |-> 444, hex |-> <<9, 9, 14, 11, 8, 1, 3, 12, 2, 6, 12, 7, 3, 8, 1, 1>>],
  [count |-> 473, hex |-> <<4, 13, 3, 3, 15, 3, 2, 4, 3, 14, 8, 8, 5, 1, 8, 13>>],
  [count |-> 503, hex |-> <<4, 12, 5, 8, 11, 4, 2, 10, 10, 7, 1, 12, 8, 11, 5, 10>>],
  [count |-> 532, hex |-> <<12, 3, 8, 3, 13, 12, 8, 2, 1, 9, 15, 6, 2, 6, 4, 14>>],
  [count |-> 562, hex |-> <<0, 2, 12, 13, 12, 13, 11, 5, 0, 2, 3, 8, 15, 1, 2, 12>>],
  [count |-> 590, hex |-> <<3, 0, 7, 10, 4, 12, 5, 7, 0, 12, 9, 4, 4, 10, 11, 2>>],
  [count |-> 617, hex |-> <<15, 8, 2, 4, 6, 12, 4, 4, 12, 11, 15, 1, 0, 11, 4, 3>>],
  [count |-> 646, hex |-> <<8, 13, 14, 10, 7, 3, 5, 12, 10, 8, 9, 5, 0, 1, 1, 9>>],
  [count |-> 675, hex |-> <<12, 4, 1, 14, 2, 2, 10, 6, 5, 0, 2, 11, 9, 6, 2, 4>>],
  [count |-> 700, hex |-> <<9, 12, 7, 4, 2, 15, 3, 10, 13, 4, 0, 6, 4, 8, 13, 1>>],
  [count |-> 729, hex |-> <<2, 14, 1, 5, 6, 8, 11, 15, 8, 8, 0, 5, 6, 10, 0, 7>>],
  [count |-> 757, hex |-> <<1, 4, 0, 8, 9, 8, 5, 1, 11, 7, 14, 3, 5, 5, 6, 0>>],
  [count |-> 783, hex |-> <<2, 7, 7, 0, 4, 9, 4, 13, 4, 5, 10, 10, 5, 10, 8, 6>>],
  [count |-> 811, hex |-> <<6, 1, 8, 3, 0, 2, 10, 11, 12, 10, 13, 5, 9, 3, 13, 2>>],
  [count |-> 840, hex |-> <<10, 13, 10, 9, 12, 2, 2, 2, 8, 7, 12, 14, 2, 4, 0, 5>>],
  [count |-> 867, hex |-> <<11, 0, 1, 6, 8, 9, 13, 1, 7, 8, 4, 13, 8, 12, 1, 8>>],
  [count |-> 893, hex |-> <<5, 2, 2, 4, 3, 4, 12, 0, 10, 2, 6, 2, 12, 7, 5, 7>>],
  [count |-> 919, hex |-> <<4, 3, 0, 8, 2, 1, 8, 13, 3, 2, 4, 0, 5, 10, 10, 14>>],
  [count |-> 942, hex |-> <<6, 0, 14, 1, 1, 9, 13, 9, 11, 6, 13, 2, 11, 6, 3, 4>>],
  [count |-> 973, hex |-> <<9, 4, 7, 10, 4, 4, 13, 0, 6, 0, 3, 9, 1, 10, 6, 7>>],
  [count |-> 1000, hex |-> <<1, 0, 5, 5, 7, 4, 10, 8, 8, 3, 8, 8, 0, 9, 9, 10>>],
  [count |-> 1023, hex |-> <<3, 2, 12, 8, 2, 3, 1, 14, 6, 8, 5, 13, 10, 1, 2, 7>>],
  [count |-> 1051, hex |-> <<3, 8, 11, 1, 4, 8, 7, 3, 4, 4, 0, 3, 1, 9, 14, 0>>],
  [count |-> 1075, hex |-> <<1, 12, 11, 5, 9, 8, 6, 1, 5, 7, 2, 10, 14, 6, 12, 3>>],
  [count |-> 1106, hex |-> <<2, 9, 0, 2, 10, 12, 8, 15, 8, 1, 12, 5, 6, 8, 0, 10>>],
  [count |-> 1130, hex |-> <<2, 14, 6, 4, 4, 14, 1, 1, 9, 4, 14, 3, 4, 7, 1, 10>>],
  [count |-> 1158, hex |-> <<1, 0, 0, 6, 12, 5, 1, 4, 13, 12, 3, 13, 12, 11, 1, 4>>],
  [count |-> 1184, hex |-> <<14, 3, 4, 7, 3, 0, 14, 9, 8, 2, 11, 1, 2, 9, 14, 9>>],
  [count |-> 1214, hex |-> <<11, 4, 3, 0, 3, 0, 0, 10, 2, 5, 12, 3, 1, 9, 3, 4>>],
  [count |-> 1237, hex |-> <<4, 12, 8, 14, 13, 8, 4, 4, 4, 6, 14, 5, 12, 1, 6, 12>>],
  [count |-> 1265, hex |-> <<8, 1, 8, 9, 9, 2, 7, 8, 7, 0, 2, 4, 2, 2, 5, 13>>],
  [count |-> 1289, hex |-> <<10, 5, 0, 8, 14, 9, 8, 6, 1, 11, 2, 6, 5, 6, 8, 2>>],
  [count |-> 1315, hex |-> <<1, 0, 4, 10, 12, 2, 11, 0, 2, 9, 12, 3, 13, 3, 0, 0>>],
  [count |-> 1337, hex |-> <<12, 7, 6, 0, 4, 2, 1, 13, 10, 1, 3, 8, 5, 9, 11, 2>>],
  [count |-> 1364, hex |-> <<8, 11, 12, 6, 1, 10, 4, 4, 12, 8, 8, 12, 2, 7, 2, 2>>],
  [count |-> 1389, hex |-> <<0, 9, 3, 1, 10, 6, 1, 0, 4, 6, 1, 10, 8, 1, 8, 2>>],
  [count |-> 1409, hex |-> <<1, 5, 10, 9, 13, 8, 13, 2, 1, 8, 2, 15, 5, 4, 15, 0>>],
  [count |-> 1438, hex |-> <<9, 1, 5, 0, 0, 14, 12, 0, 15, 6, 0, 12, 2, 14, 0, 6>>],
  [count |-> 1462, hex |-> <<12, 3, 1, 9, 6, 5, 3, 8, 1, 8, 12, 1, 2, 6, 12, 13>>],
  [count |-> 1489, hex |-> <<4, 10, 8, 4, 13, 6, 2, 13, 2, 10, 8, 11, 9, 3, 5, 6>>],
  [count |-> 1518, hex |-> <<12, 4, 7, 6, 14, 0, 0, 9, 2, 12, 10, 5, 0, 10, 6, 1>>],
  [count |-> 1543, hex |-> <<1, 11, 6, 6, 1, 4, 14, 8, 0, 8, 13, 8, 3, 12, 6, 10>>],
  [count |-> 1570, hex |-> <<0, 7, 3, 1, 1, 0, 3, 6, 6, 3, 0, 2, 10, 4, 11, 0>>],
  [count |-> 1592, hex |-> <<10, 0, 8, 10, 12, 3, 1, 2, 4, 2, 4, 8, 9, 2, 13, 5>>],
  [count |-> 1615, hex |-> <<5, 12, 7, 8, 8, 5, 8, 2, 10, 4, 7, 4, 2, 13, 9, 15>>],
  [count |-> 1645, hex |-> <<14, 8, 0, 2, 1, 13, 1, 4, 6, 1, 11, 0, 1, 8, 0, 13>>],
  [count |-> 1667, hex |-> <<3, 0, 8, 3, 1, 12, 4, 9, 0, 1, 12, 1, 1, 2, 1, 8>>],
  [count |-> 1686, hex |-> <<15, 4, 0, 12, 0, 15, 13, 8, 8, 8, 10, 1, 3, 3, 6, 7>>],
  [count |-> 1715, hex |-> <<11, 1, 4, 7, 4, 2, 6, 6, 13, 7, 5, 8, 8, 8, 9, 8>>],
  [count |-> 1743, hex |-> <<1, 5, 5, 9, 4, 1, 1, 8, 0, 8, 9, 6, 10, 8, 1, 6>>],
  [count |-> 1765, hex |-> <<10, 1, 10, 10, 11, 3, 14, 1, 5, 2, 2, 10, 4, 4, 11, 5>>],
  [count |-> 1794, hex |-> <<0, 12, 10, 5, 1, 1, 1, 8, 5, 5, 6, 2, 4, 5, 5, 9>>],
  [count |-> 1818, hex |-> <<0, 10, 13, 6, 5, 4, 11, 14, 0, 0, 6, 7, 3, 12, 10, 3>>],
  [count |-> 1847, hex |-> <<7, 14, 0, 8, 1, 5, 0, 12, 8, 2, 6, 11, 3, 6, 2, 0>>],
  [count |-> 1871, hex |-> <<8, 4, 0, 10, 6, 1, 13, 0, 7, 8, 0, 1, 9, 1, 5, 6>>],
  [count |-> 1893, hex |-> <<5, 0, 10, 0, 5, 6, 0, 14, 5, 7, 0, 1, 2, 12, 10, 8>>],
  [count |-> 1916, hex |-> <<1, 0, 6, 3, 2, 0, 6, 12, 4, 7, 8, 12, 9, 8, 0, 11>>],
  [count |-> 1939, hex |-> <<7, 5, 0, 11, 8, 8, 5, 7, 0, 12, 14, 4, 0, 9, 12, 4>>],
  [count |-> 1965, hex |-> <<0, 2, 2, 4, 3, 9, 12, 2, 8, 2, 5, 2, 12, 2, 0, 11>>],
  [count |-> 1986, hex |-> <<10, 3, 13, 6, 2, 9, 3, 1, 7, 10, 2, 5, 5, 6, 2, 12>>],
  [count |-> 2016, hex |-> <<3, 2, 8, 10, 0, 12, 11, 0, 1, 8, 11, 1, 14, 1, 2, 0>>],
  [count |-> 2038, hex |-> <<3, 7, 3, 0, 10, 13, 12, 5, 0, 9, 3, 2, 1, 1, 12, 1>>],
  [count |-> 2064, hex |-> <<6, 11, 2, 5, 2, 0, 12, 15, 8, 2, 9, 1, 11, 12, 0, 8>>],
  [count |-> 2090, hex |-> <<0, 7, 6, 10, 4, 6, 2, 6, 4, 4, 8, 15, 3, 0, 9, 12>>],
  [count |-> 2116, hex |-> <<12, 5, 2, 5, 0, 2, 1, 0, 5, 8, 0, 9, 8, 14, 4, 9>>],
  [count |-> 2137, hex |-> <<9, 0, 3, 12, 8, 0, 10, 0, 8, 0, 5, 10, 4, 2, 12, 4>>],
  [count |-> 2156, hex |-> <<0, 12, 5, 1, 8, 4, 0, 3, 14, 1, 1, 4, 6, 4, 2, 8>>],
  [count |-> 2176, hex |-> <<7, 14, 4, 7, 12, 0, 0, 8, 10, 4, 8, 10, 10, 3, 2, 14>>],
  [count |-> 2203, hex |-> <<0, 4, 0, 0, 2, 10, 5, 4, 12, 13, 0, 3, 2, 11, 13, 3>>],
  [count |-> 2226, hex |-> <<12, 1, 8, 3, 4, 12, 2, 9, 4, 2, 6, 12, 9, 2, 11, 3>>],
  [count |-> 2252, hex |-> <<3, 8, 13, 11, 2, 1, 4, 6, 2, 13, 1, 12, 12, 12, 9, 2>>],
  [count |-> 2280, hex |-> <<14, 0, 11, 11, 5, 8, 1, 2, 2, 4, 8, 12, 8, 4, 5, 9>>],
  [count |-> 2305, hex |-> <<9, 1, 2, 8, 0, 9, 12, 9, 3, 0, 7, 0, 0, 13, 0, 6>>],
  [count |-> 2326, hex |-> <<12, 2, 8, 0, 3, 0, 8, 12, 15, 9, 3, 2, 4, 4, 4, 1>>],
  [count |-> 2348, hex |-> <<1, 4, 8, 3, 8, 1, 7, 13, 0, 12, 6, 2, 10, 4, 7, 2>>],
  [count |-> 2373, hex |-> <<1, 4, 7, 8, 0, 10, 8, 2, 1, 5, 0, 14, 10, 10, 14, 1>>],
  [count |-> 2397, hex |-> <<11, 2, 15, 0, 2, 14, 6, 15, 1, 0, 0, 8, 9, 7, 7, 0>>],
  [count |-> 2425, hex |-> <<8, 6, 6, 2, 5, 3, 3, 2, 4, 4, 4, 9, 3, 0, 1, 13>>],
  [count |-> 2449, hex |-> <<13, 9, 3, 6, 4, 11, 1, 1, 0, 10, 8, 4, 4, 5, 6, 5>>],
  [count |-> 2475, hex |-> <<1, 9, 7, 12, 9, 0, 8, 0, 6, 1, 3, 10, 6, 9, 8, 12>>],
  [count |-> 2500, hex |-> <<2, 13, 0, 5, 0, 12, 8, 11, 4, 0, 9, 5, 3, 0, 12, 0>>],
  [count |-> 2521, hex |-> <<1, 10, 8, 5, 9, 6, 11, 4, 10, 1, 7, 1, 12, 0, 0, 14>>],
  [count |-> 2547, hex |-> <<11, 7, 4, 8, 4, 12, 5, 1, 1, 4, 1, 5, 12, 0, 1, 6>>],
  [count |-> 2571, hex |-> <<10, 1, 0, 2, 2, 14, 8, 10, 8, 9, 1, 0, 9, 5, 7, 9>>],
  [count |-> 2595, hex |-> <<2, 2, 0, 8, 9, 1, 1, 0, 8, 1, 9, 0, 13, 5, 1, 12>>],
  [count |-> 2614, hex |-> <<5, 12, 2, 0, 3, 3, 12, 0, 7, 8, 14, 9, 1, 14, 11, 4>>],
  [count |-> 2642, hex |-> <<4, 7, 1, 0, 2, 3, 10, 10, 14, 2, 0, 14, 12, 4, 8, 11>>],
  [count |-> 2668, hex |-> <<10, 8, 5, 1, 10, 1, 1, 9, 7, 11, 5, 5, 2, 8, 14, 3>>],
  [count |-> 2697, hex |-> <<6, 0, 6, 1, 13, 1, 2, 12, 8, 2, 9, 0, 0, 4, 0, 6>>],
  [count |-> 2716, hex |-> <<2, 3, 5, 4, 8, 1, 4, 4, 4, 1, 0, 6, 5, 2, 10, 1>>],
  [count |-> 2736, hex |-> <<4, 8, 7, 2, 2, 2, 2, 7, 0, 4, 10, 9, 1, 8, 8, 8>>],
  [count |-> 2757, hex |-> <<2, 9, 12, 10, 1, 7, 1, 2, 4, 2, 1, 12, 4, 0, 11, 6>>],
  [count |-> 2781, hex |-> <<8, 9, 8, 4, 5, 2, 14, 1, 3, 12, 0, 1, 5, 10, 10, 0>>],
  [count |-> 2804, hex |-> <<13, 2, 6, 9, 2, 12, 15, 1, 0, 6, 4, 0, 0, 1, 13, 10>>],
  [count |-> 2829, hex |-> <<12, 8, 8, 10, 3, 4, 2, 1, 12, 1, 6, 3, 4, 2, 4, 8>>],
  [count |-> 2851, hex |-> <<4, 4, 2, 14, 8, 8, 0, 9, 2, 6, 7, 1, 2, 1, 6, 12>>],
  [count |-> 2874, hex |-> <<13, 1, 1, 2, 8, 6, 9, 8, 1, 13, 9, 2, 2, 8, 13, 5>>],
  [count |-> 2900, hex |-> <<5, 0, 1, 4, 4, 6, 2, 0, 4, 6, 10, 0, 10, 3, 5, 2>>],
  [count |-> 2920, hex |-> <<8, 12, 10, 9, 4, 4, 5, 0, 8, 3, 13, 13, 13, 12, 8, 3>>],
  [count |-> 2948, hex |-> <<3, 9, 1, 11, 8, 9, 1, 4, 5, 4, 2, 14, 1, 4, 4, 13>>],
  [count |-> 2974, hex |-> <<0, 2, 8, 0, 8, 15, 2, 9, 8, 1, 1, 4, 8, 0, 4, 2>>],
  [count |-> 2991, hex |-> <<0, 12, 0, 5, 11, 0, 8, 3, 8, 2, 9, 6, 3, 2, 0, 3>>],
  [count |-> 3012, hex |-> <<1, 10, 14, 12, 13, 9, 15, 8, 0, 7, 8, 8, 5, 1, 1, 4>>],
  [count |-> 3040, hex |-> <<2, 3, 0, 6, 8, 6, 4, 3, 5, 12, 3, 1, 4, 8, 0, 6>>],
  [count |-> 3062, hex |-> <<11, 2, 15, 0, 0, 0, 10, 5, 0, 12, 4, 4, 0, 9, 11, 3>>],
  [count |-> 3085, hex |-> <<11, 6, 1, 8, 12, 2, 4, 2, 14, 1, 12, 10, 0, 1, 8, 0>>],
  [count |-> 3107, hex |-> <<6, 1, 2, 12, 2, 9, 5, 2, 2, 14, 12, 7, 9, 11, 2, 12>>],
  [count |-> 3136, hex |-> <<5, 14, 8, 0, 8, 4, 8, 11, 2, 4, 2, 6, 8, 10, 1, 10>>],
  [count |-> 3159, hex |-> <<2, 1, 4, 5, 3, 5, 2, 10, 5, 3, 12, 1, 0, 2, 6, 0>>],
  [count |-> 3181, hex |-> <<0, 4, 4, 8, 4, 10, 12, 5, 11, 8, 4, 2, 13, 1, 5, 2>>],
  [count |-> 3204, hex |-> <<12, 4, 5, 0, 0, 9, 12, 1, 6, 1, 2, 3, 7, 0, 1, 6>>],
  [count |-> 3226, hex |-> <<2, 8, 2, 2, 1, 6, 0, 1, 13, 9, 1, 8, 8, 8, 8, 1>>],
  [count |-> 3245, hex |-> <<0, 9, 5, 3, 2, 4, 3, 8, 14, 11, 8, 4, 9, 0, 8, 12>>],
  [count |-> 3269, hex |-> <<3, 0, 8, 6, 0, 9, 8, 2, 1, 4, 6, 10, 4, 1, 10, 9>>],
  [count |-> 3290, hex |-> <<5, 10, 9, 5, 2, 11, 0, 0, 4, 2, 3, 8, 10, 2, 9, 12>>]
  >>

pi_cache_ ==
  [w \in 1 .. CacheWords |->
     [count |-> pi_cache_hex[w].count, bits |-> HexBits(pi_cache_hex[w].hex)]]

\* a pi_t that resize() created and nothing has written yet: its content is
\* whatever the memory held, here a count no word can have and all bits set
UninitWord == [count |-> -1, bits |-> AllOnes]
\* a counts_ slot that resize() created and nothing has written yet
UninitCount == -1

\* set_bit_[r]: the bit that stands for residue r = prime % 240
set_bit_(r) == {p \in BitPos : BitResidue(p) = r}

\* unset_larger_[r]: the bits that stand for residues <= r
unset_larger_(r) == {p \in BitPos : BitResidue(p) <= r}

\* PiTable::operator[](x)  for the words of the table
PiLookup(tab, x) ==
  tab[(x \div WordSpan) + 1].count
    + popcount64(tab[(x \div WordSpan) + 1].bits \cap unset_larger_(x % WordSpan))

\* primesieve::iterator it(low, high): the primes in [low, high)
PrimesIn(lo, high) == {q \in lo .. (high - 1) : IsPrime(q)}

\* ideal_num_threads(dist, threads, thread_threshold) is defined outside these
\* sources: it returns a thread count between 1 and the requested one
ideal_num_threads(dist, thr, threshold) == 1 .. thr

\* the bounds [low, high) of iteration t of the omp for loops of PiTable::init
ChunkLow(a, t) == a.cache_limit + a.thread_dist * t
\* high without the line high = min(high, limit)
ChunkHighUnclamped(a, t) == ChunkLow(a, t) + a.thread_dist

\* high of iteration t of either loop of PiTable::init
ChunkHigh(a, t) == Min(ChunkLow(a, t) + a.thread_dist, a.limit)

RECURSIVE SumSeq(_, _, _)
\* s[i] + ... + s[j]
SumSeq(s, i, j) == IF i > j THEN 0 ELSE s[i] + SumSeq(s, i + 1, j)

\* init_bits without the zero fill: the bits are or-ed into what resize() left
InitBitsNoFill(tab, lo, high) ==
  LET ps == PrimesIn(Max(lo, 7), high)
  IN [w \in DOMAIN tab |->
        IF (lo \div WordSpan) + 1 <= w /\ w <= ceil_div(high, WordSpan)
          THEN [count |-> tab[w].count,
                bits |-> tab[w].bits \cup
                         UNION {set_bit_(q % WordSpan) :
                                  q \in {z \in ps : (z \div WordSpan) + 1 = w}}]
          ELSE tab[w]]

\* PiTable::init_bits(low, high, thread_num): the new pi_
InitBits(tab, lo, high) ==
  LET ps == PrimesIn(Max(lo, 7), high)
  IN [w \in DOMAIN tab |->
        IF (lo \div WordSpan) + 1 <= w /\ w <= ceil_div(high, WordSpan)
          THEN [count |-> 0,
                bits |-> UNION {set_bit_(q % WordSpan) :
                                  q \in {z \in ps : (z \div WordSpan) + 1 = w}}]
          ELSE tab[w]]

\* the count init_bits stores in counts_[thread_num]
InitBitsCount(lo, high) == Cardinality(PrimesIn(Max(lo, 7), high))

RECURSIVE PopBefore(_, _, _)
\* popcounts of the words i .. w-1 (Seq indices) of pi
PopBefore(tab, i, w) ==
  IF i >= w THEN 0 ELSE popcount64(tab[i].bits) + PopBefore(tab, i + 1, w)

\* init_count that starts from the cache tail and leaves out the chunks before
InitCountNoPrior(tab, counts, lo, high, thread_num) ==
  LET cache_last == pi_cache_[CacheWords]
      start == cache_last.count + popcount64(cache_last.bits)
      i0 == (lo \div WordSpan) + 1
  IN [w \in DOMAIN tab |->
        IF i0 <= w /\ w <= ceil_div(high, WordSpan)
          THEN [count |-> start + PopBefore(tab, i0, w), bits |-> tab[w].bits]
          ELSE tab[w]]

\* PiTable::init_count(low, high, thread_num): the new pi_
InitCount(tab, counts, lo, high, thread_num) ==
  LET cache_last == pi_cache_[CacheWords]
      start == cache_last.count + popcount64(cache_last.bits)
                 + SumSeq(counts, 1, thread_num)
      i0 == (lo \div WordSpan) + 1
  IN [w \in DOMAIN tab |->
        IF i0 <= w /\ w <= ceil_div(high, WordSpan)
          THEN [count |-> start + PopBefore(tab, i0, w), bits |-> tab[w].bits]
          ELSE tab[w]]

PTInit ==
  /\ pi_ = <<>> /\ counts_ = <<>> /\ max_x_ = 0 /\ pt_pc = "new"
  /\ pt_arg = <<>> /\ pt_todo = {} /\ pt_scan = <<>>

\* the max_x the tables are built for
PTMaxXs ==
  {100, CacheWords * WordSpan - 1, CacheWords * WordSpan,
   CacheWords * WordSpan + 500, CacheWords * WordSpan + PTExtra}

\* thread_dist without the line thread_dist += 240 - thread_dist % 240
ThreadDistNoRounding(dist, nt) == Max(thread_threshold, dist \div nt)

\* thread_dist of PiTable::init
ThreadDist(dist, nt) ==
  LET d0 == Max(thread_threshold, dist \div nt)
  IN d0 + (WordSpan - (d0 % WordSpan))

\* PiTable::PiTable(max_x, threads), up to the first omp for of PiTable::init
PTConstruct(max_x, thr) ==
  /\ pt_pc = "new"
  /\ LET limit == max_x + 1
         size == ceil_div(limit, WordSpan)
         n == Min(CacheWords, size)
         cache_limit == CacheWords * WordSpan
     IN /\ max_x_' = max_x
        /\ pi_' = [w \in 1 .. size |-> IF w <= n THEN pi_cache_[w] ELSE UninitWord]
        /\ pt_scan' = [w |-> 0, ref |-> 0]
        /\ IF limit > cache_limit
             THEN LET dist == limit - cache_limit
                  IN \E nt \in ideal_num_threads(dist, thr, thread_threshold) :
                       LET thread_dist == ThreadDist(dist, nt)
                       IN /\ pt_arg' = [max_x |-> max_x, threads |-> nt, limit |-> limit,
                                        cache_limit |-> cache_limit,
                                        thread_dist |-> thread_dist]
                          /\ counts_' = [t \in 1 .. nt |-> UninitCount]
                          /\ pt_todo' = 0 .. (nt - 1)
                          /\ pt_pc' = "bits"
             ELSE /\ pt_arg' = [max_x |-> max_x, threads |-> thr, limit |-> limit,
                                cache_limit |-> cache_limit, thread_dist |-> 0]
                  /\ counts_' = <<>>
                  /\ pt_todo' = {}
                  /\ pt_pc' = "done"

\* iteration t of the first omp for
PTInitBits(t) ==
  /\ pt_pc = "bits"
  /\ t \in pt_todo
  /\ LET lo == ChunkLow(pt_arg, t)
         high == ChunkHigh(pt_arg, t)
     IN IF lo < high
          THEN /\ pi_' = InitBits(pi_, lo, high)
               /\ counts_' = [counts_ EXCEPT ![t + 1] = InitBitsCount(lo, high)]
          ELSE UNCHANGED <<pi_, counts_>>
  /\ pt_todo' = pt_todo \ {t}
  /\ UNCHANGED <<max_x_, pt_pc, pt_arg, pt_scan>>

\* the first omp for with nowait: the second loop starts while iterations of
\* the first are still to run
PTBarrierNoWait ==
  /\ pt_pc = "bits"
  /\ pt_pc' = "count"
  /\ pt_todo' = 0 .. (pt_arg.threads - 1)
  /\ UNCHANGED <<pi_, counts_, max_x_, pt_arg, pt_scan>>

\* the implicit barrier at the end of the first omp for
PTBarrier ==
  /\ pt_pc = "bits"
  /\ pt_todo = {}
  /\ pt_pc' = "count"
  /\ pt_todo' = 0 .. (pt_arg.threads - 1)
  /\ UNCHANGED <<pi_, counts_, max_x_, pt_arg, pt_scan>>

\* iteration t of the second omp for
PTInitCount(t) ==
  /\ pt_pc = "count"
  /\ t \in pt_todo
  /\ LET lo == ChunkLow(pt_arg, t)
         high == ChunkHigh(pt_arg, t)
     IN IF lo < high
          THEN pi_' = InitCount(pi_, counts_, lo, high, t)
          ELSE UNCHANGED pi_
  /\ pt_todo' = pt_todo \ {t}
  /\ UNCHANGED <<counts_, max_x_, pt_pc, pt_arg, pt_scan>>

\* the end of the parallel region: the constructor returns
PTJoin ==
  /\ pt_pc = "count"
  /\ pt_todo = {}
  /\ pt_pc' = "done"
  /\ UNCHANGED <<pi_, counts_, max_x_, pt_arg, pt_todo, pt_scan>>

\* the primes of the interval of word w (0-based) that are <= max_x
WordPrimes(w) ==
  {q \in PrimesIn(w * WordSpan, (w + 1) * WordSpan) : q <= max_x_}

\* the lookups pi[n] for the n of word pt_scan.w have been made: on to the next word
PTScan ==
  /\ pt_pc = "done"
  /\ pt_scan.w < Len(pi_) - 1
  /\ pt_scan' = [w |-> pt_scan.w + 1,
                 ref |-> pt_scan.ref + Cardinality(WordPrimes(pt_scan.w))]
  /\ UNCHANGED <<pi_, counts_, max_x_, pt_pc, pt_arg, pt_todo>>

PTNext ==
  \/ \E max_x \in PTMaxXs : \E thr \in 1 .. PTMaxThreads :
       PTConstruct(max_x, thr) /\ UNCHANGED <<bsVars, s2Vars, sgVars, rrVars>>
  \/ \E t \in pt_todo : PTInitBits(t) /\ UNCHANGED <<bsVars, s2Vars, sgVars, rrVars>>
  \/ PTBarrier /\ UNCHANGED <<bsVars, s2Vars, sgVars, rrVars>>
  \/ \E t \in pt_todo : PTInitCount(t) /\ UNCHANGED <<bsVars, s2Vars, sgVars, rrVars>>
  \/ PTJoin /\ UNCHANGED <<bsVars, s2Vars, sgVars, rrVars>>
  \/ PTScan /\ UNCHANGED <<bsVars, s2Vars, sgVars, rrVars>>

InitPiTable == PTInit /\ BSIdle /\ S2Idle /\ SGIdle /\ RRIdle

SpecPiTable == InitPiTable /\ [][PTNext]_vars

(***************************************************************************)
(* C4: for every word w and residue r with n = 240*w + r <= max_x,         *)
(* pi_[w].count + popcount(pi_[w].bits restricted to residues <= r) is the *)
(* number of primes <= n.  The words carry PrimePi(5) = 3 from the start,  *)
(* so this holds for n >= 5; for n < 5 the first word gives 3.             *)
(***************************************************************************)
\* the lookups of the scanned word agree with the reference count for lo <= n
ScannedWordIsPi(lo) ==
  (pt_pc = "done") =>
    LET w == pt_scan.w
        ps == WordPrimes(w)
    IN \A r \in 0 .. (WordSpan - 1) :
         LET n == WordSpan * w + r
         IN (lo <= n /\ n <= max_x_) =>
              PiLookup(pi_, n) = pt_scan.ref + Cardinality({q \in ps : q <= n})

\* the claim as stated: every n <= max_x, n < 5 included
C4_Original == ScannedWordIsPi(0)

C4_WordCountIsPi == ScannedWordIsPi(5)

\* the last cache word and a word built by init have been looked up
C4_Witness ==
  /\ pt_pc = "done"
  /\ pt_scan.w = CacheWords + 2
  /\ pt_arg.threads >= 2
  /\ PiLookup(pi_, max_x_) = pt_scan.ref + Cardinality(WordPrimes(pt_scan.w))
  /\ PiLookup(pi_, CacheWords * WordSpan - 1) = 3314

(***************************************************************************)
(* C5: after PiTable(max_x, threads) with max_x + 1 > 30720 every word     *)
(* w >= 128 has count = (count + popcount of the last cache word) + (sum   *)
(* of counts_[i] of the chunks before its chunk) + (popcount of the words  *)
(* of its chunk before w), and count[w] = count[w-1] + popcount(bits[w-1]) *)
(* for every w >= 1.                                                       *)
(***************************************************************************)
\* chunk (iteration t) that owns word w (0-based), and that chunk's first word
ChunkOf(w) == (w * WordSpan - pt_arg.cache_limit) \div pt_arg.thread_dist
ChunkFirstWord(t) == ChunkLow(pt_arg, t) \div WordSpan

C5_PrefixCounts ==
  (pt_pc = "done" /\ max_x_ + 1 > CacheWords * WordSpan) =>
    /\ \A w \in 1 .. (Len(pi_) - 1) :
         pi_[w + 1].count = pi_[w].count + popcount64(pi_[w].bits)
    /\ \A w \in CacheWords .. (Len(pi_) - 1) :
         pi_[w + 1].count =
           pi_cache_[CacheWords].count + popcount64(pi_cache_[CacheWords].bits)
             + SumSeq(counts_, 1, ChunkOf(w))
             + PopBefore(pi_, ChunkFirstWord(ChunkOf(w)) + 1, w + 1)

\* a table of three chunks whose last word is partial
C5_Witness ==
  /\ pt_pc = "done"
  /\ pt_arg.threads = 3
  /\ ChunkLow(pt_arg, 2) < pt_arg.limit
  /\ pt_arg.limit % WordSpan # 0
  /\ counts_[1] > 0 /\ counts_[2] > 0 /\ counts_[3] > 0
  /\ pi_[Len(pi_)].count > pi_[ChunkFirstWord(2) + 1].count

(***************************************************************************)
(* pi_lmo_parallel3: the tables                                            *)
(***************************************************************************)
TableMax == 80         \* the tables are built up to TableMax: every y is <= TableMax
TBits == 6             \* the integer type T of RiemannR_inverse has TBits bits (64 or 128 in the code)
FloatDigits == 3       \* the mantissa of FLOAT has FloatDigits bits (24, 53, 64 or 113 in the code)
NewtonIters == 3       \* for (int i = 0; i < 100; i++) runs NewtonIters times at most
TermMax == 2           \* a Newton term is an integer in -TermMax .. TermMax
WaveMaxThreads == 2    \* the calls of SpecWaves have threads in 1..WaveMaxThreads
S2MaxThreads == 3      \* S2 is called with threads in 1..S2MaxThreads

PrimeSet == {q \in 2 .. TableMax : IsPrime(q)}

\* make_pi(y): pi[n] = number of primes <= n (the vector of y is the part n <= y)
pi == [n \in 0 .. TableMax |-> Cardinality({q \in PrimeSet : q <= n})]

\* primes[0] = 0, then primesieve::generate_primes(y): primes[b] is the b-th prime
primes ==
  [b \in 0 .. Cardinality(PrimeSet) |->
     IF b = 0 THEN 0 ELSE CHOOSE q \in PrimeSet : pi[q] = b]

\* make_least_prime_factor(y): lpf[n] is the smallest prime factor of n;
\* lpf[1] is larger than every prime
lpf ==
  [n \in 1 .. TableMax |->
     IF n = 1 THEN TableMax + 1
     ELSE CHOOSE q \in PrimeSet : n % q = 0 /\ \A r \in PrimeSet : n % r = 0 => q <= r]

\* make_moebius(y): mu[n] = 0 if a square of a prime divides n, else (-1)^k
mu ==
  [n \in 1 .. TableMax |->
     IF \E q \in PrimeSet : n % (q * q) = 0 THEN 0
     ELSE IF Cardinality({q \in PrimeSet : n % q = 0}) % 2 = 0 THEN 1 ELSE -1]

\* in_between(min, x, max)
in_between(lo, v, hi) == IF v < lo THEN lo ELSE IF v > hi THEN hi ELSE v

RECURSIVE next_power_of_2(_)
\* next_power_of_2(x): the smallest power of two >= x, and 0 for x = 0
next_power_of_2(v) ==
  IF v <= 0 THEN 0 ELSE IF v = 1 THEN 1 ELSE 2 * next_power_of_2((v + 1) \div 2)

\* ilog(x) = (int) log((double) x): the number of k >= 1 with e^k <= x
ExpCeil == <<3, 8, 21, 55, 149, 404, 1097, 2981, 8104, 22027, 59875, 162755, 442414>>
ilog(v) == Cardinality({k \in DOMAIN ExpCeil : ExpCeil[k] <= v})

(***************************************************************************)
(* tos_counters: a binary indexed tree over the positions of the sieve.    *)
(* counters[i] holds the number of set bits at the positions               *)
(* (i & (i + 1)) .. i.                                                     *)
(***************************************************************************)
RECURSIVE TrailingOnes(_)
\* the value of the trailing 1-bits of i:  i - (i & (i + 1))
TrailingOnes(i) == IF i % 2 = 1 THEN 1 + 2 * TrailingOnes(i \div 2) ELSE 0

\* cnt_finit(sieve, counters, segment_size)
cnt_finit(sieve, ssize) ==
  [i \in 0 .. (ssize - 1) |->
     Cardinality({j \in (i - TrailingOnes(i)) .. i : BitTest(sieve, j)})]

RECURSIVE cnt_update(_, _, _)
\* cnt_update(counters, pos, segment_size): one bit at pos has been cleared
cnt_update(counters, pos, ssize) ==
  IF pos >= ssize THEN counters
  ELSE cnt_update([counters EXCEPT ![pos] = @ - 1],
                  pos + TrailingOnes(pos) + 1, ssize)

RECURSIVE cnt_query(_, _)
\* cnt_query(counters, pos): the number of set bits at the positions 0 .. pos
cnt_query(counters, pos) ==
  IF pos < 0 THEN 0
  ELSE counters[pos] + cnt_query(counters, pos - TrailingOnes(pos) - 1)

(***************************************************************************)
(* pi_lmo_parallel3: S2_thread                                             *)
(***************************************************************************)
\* an init_next_multiples without next_multiple += prime * (~next_multiple & 1)
InitNextMultiplesAnyParity(size, lo) ==
  [b \in 0 .. (size - 1) |->
     IF b = 0 THEN 0
     ELSE ((lo + primes[b] - 1) \div primes[b]) * primes[b]]

\* an init_next_multiples that rounds low down to a multiple of the prime
InitNextMultiplesRoundDown(size, lo) ==
  [b \in 0 .. (size - 1) |->
     IF b = 0 THEN 0
     ELSE LET prime == primes[b]
              next_multiple == (lo \div prime) * prime
          IN next_multiple + prime * ((next_multiple + 1) % 2)]

\* init_next_multiples(next, primes, size, low)
init_next_multiples(size, lo) ==
  [b \in 0 .. (size - 1) |->
     IF b = 0 THEN 0
     ELSE LET prime == primes[b]
              next_multiple == ((lo + prime - 1) \div prime) * prime
          IN next_multiple + prime * ((next_multiple + 1) % 2)]

RECURSIVE CrossOffUnguarded(_, _, _, _, _, _, _)
\* a cross_off that updates the counters for every multiple, set or not
CrossOffUnguarded(prime, lo, high, k, sieve, counters, ssize) ==
  IF k >= high THEN [sieve |-> sieve, counters |-> counters, next_multiple |-> k]
  ELSE CrossOffUnguarded(prime, lo, high, k + prime * 2, BitUnset(sieve, k - lo),
                         cnt_update(counters, k - lo, ssize), ssize)

RECURSIVE cross_off(_, _, _, _, _, _, _)
\* cross_off(prime, low, high, next_multiple, sieve, counters), with k = next_multiple
cross_off(prime, lo, high, k, sieve, counters, ssize) ==
  IF k >= high THEN [sieve |-> sieve, counters |-> counters, next_multiple |-> k]
  ELSE IF BitTest(sieve, k - lo)
    THEN cross_off(prime, lo, high, k + prime * 2, BitUnset(sieve, k - lo),
                   cnt_update(counters, k - lo, ssize), ssize)
    ELSE cross_off(prime, lo, high, k + prime * 2, sieve, counters, ssize)

RECURSIVE UnsetMultiplesEveryMultiple(_, _, _, _, _)
\* a pre-sieve loop that goes from a multiple to the next one, odd or even
UnsetMultiplesEveryMultiple(prime, lo, high, k, sieve) ==
  IF k >= high THEN [sieve |-> sieve, next_multiple |-> k]
  ELSE UnsetMultiplesEveryMultiple(prime, lo, high, k + prime, BitUnset(sieve, k - lo))

RECURSIVE UnsetMultiples(_, _, _, _, _)
\* the inner loop of the pre-sieve: unset k - low for k, k + 2*prime, ... < high
UnsetMultiples(prime, lo, high, k, sieve) ==
  IF k >= high THEN [sieve |-> sieve, next_multiple |-> k]
  ELSE UnsetMultiples(prime, lo, high, k + prime * 2, BitUnset(sieve, k - lo))

RECURSIVE PreSieve(_, _, _, _, _, _)
\* for (; b <= c; b++): sieve out the multiples of the primes 2 .. c (by index)
PreSieve(b, c, lo, high, sieve, next) ==
  IF b > c THEN [sieve |-> sieve, next |-> next]
  ELSE LET r == UnsetMultiples(primes[b], lo, high, next[b], sieve)
       IN PreSieve(b + 1, c, lo, high, r.sieve, [next EXCEPT ![b] = r.next_multiple])

RECURSIVE Leaves1(_, _, _, _, _, _, _)
\* for (m = max_m; m > min_m; m--) of the first loop: the changes of
\* S2_thread and mu_sum[b]
Leaves1(x, prime, lo, phi_b, counters, m, min_m) ==
  IF m <= min_m THEN [S2_thread |-> 0, mu_sum |-> 0]
  ELSE LET rest == Leaves1(x, prime, lo, phi_b, counters, m - 1, min_m)
       IN IF mu[m] # 0 /\ prime < lpf[m]
            THEN LET n == prime * m
                     count == cnt_query(counters, (x \div n) - lo)
                     phi_xn == phi_b + count
                 IN [S2_thread |-> rest.S2_thread - mu[m] * phi_xn,
                     mu_sum |-> rest.mu_sum - mu[m]]
            ELSE rest

RECURSIVE Leaves2NoCount(_, _, _, _, _, _, _)
\* a second loop whose phi_xn is phi[b] alone, without the count of the segment
Leaves2NoCount(x, prime, lo, phi_b, counters, l, min_l) ==
  IF l <= min_l THEN [S2_thread |-> 0, mu_sum |-> 0]
  ELSE LET rest == Leaves2NoCount(x, prime, lo, phi_b, counters, l - 1, min_l)
       IN [S2_thread |-> rest.S2_thread + phi_b, mu_sum |-> rest.mu_sum + 1]

RECURSIVE Leaves2(_, _, _, _, _, _, _)
\* for (; l > min_l; l--) of the second loop
Leaves2(x, prime, lo, phi_b, counters, l, min_l) ==
  IF l <= min_l THEN [S2_thread |-> 0, mu_sum |-> 0]
  ELSE LET rest == Leaves2(x, prime, lo, phi_b, counters, l - 1, min_l)
           n == prime * primes[l]
           count == cnt_query(counters, (x \div n) - lo)
           phi_xn == phi_b + count
       IN [S2_thread |-> rest.S2_thread + phi_xn, mu_sum |-> rest.mu_sum + 1]

RECURSIVE CombineNoCarry(_, _, _, _, _)
\* a combine loop that leaves out the phi_total[j] * mu_sum[i][j] term
CombineNoCarry(total, phi_tot, phi_i, mu_sum_i, j) ==
  IF j >= Len(phi_i) THEN [S2_total |-> total, phi_total |-> phi_tot]
  ELSE CombineNoCarry(total, [phi_tot EXCEPT ![j] = @ + phi_i[j + 1]],
                      phi_i, mu_sum_i, j + 1)

RECURSIVE CombineStale(_, _, _, _, _)
\* a combine loop that adds phi[i][j] to phi_total[j] before it uses phi_total[j]
CombineStale(total, phi_tot, phi_i, mu_sum_i, j) ==
  IF j >= Len(phi_i) THEN [S2_total |-> total, phi_total |-> phi_tot]
  ELSE CombineStale(total + (phi_tot[j] + phi_i[j + 1]) * mu_sum_i[j + 1],
                    [phi_tot EXCEPT ![j] = @ + phi_i[j + 1]],
                    phi_i, mu_sum_i, j + 1)

RECURSIVE CombineThread(_, _, _, _, _)
\* for (j = 1; j < phi[i].size(); j++) of the combine loop of S2; the vectors
\* phi[i] and mu_sum[i] are sequences (index j of the vector = Seq index j + 1)
CombineThread(total, phi_tot, phi_i, mu_sum_i, j) ==
  IF j >= Len(phi_i) THEN [S2_total |-> total, phi_total |-> phi_tot]
  ELSE CombineThread(total + phi_tot[j] * mu_sum_i[j + 1],
                     [phi_tot EXCEPT ![j] = @ + phi_i[j + 1]],
                     phi_i, mu_sum_i, j + 1)

(***************************************************************************)
(* pi_lmo_parallel3: S2 as a state machine.  S2 runs waves; in a wave the   *)
(* iterations i of the parallel for run S2_thread concurrently, one step    *)
(* at a time, and S2 goes on when all of them have returned.                *)
(***************************************************************************)
min_segment_size == 64     \* 1 << 6

\* the locals of an S2_thread call that has not started or has returned
NoLocals ==
  [pc |-> "call", low |-> 0, limit |-> 0, size |-> 0, S2_thread |-> 0,
   sieve |-> <<>>, counters |-> <<>>, next |-> <<>>, b |-> 0, high |-> 0]

\* the vector v with n added to element b (vector index b = Seq index b + 1)
VecAdd(v, b, n) == [v EXCEPT ![b + 1] = @ + n]

\* S2(x, y, pi_y, c, primes, lpf, mu, threads) up to the while loop
S2Enter(x, y, c, thr) ==
  LET limit == (x \div y) + 1
      sqrt_limit == isqrt(limit)
      logx == Max(1, ilog(x))
  IN /\ s2_in' = [x |-> x, y |-> y, pi_y |-> pi[y], c |-> c, threads |-> thr,
                  limit |-> limit, sqrt_limit |-> sqrt_limit,
                  pi_sqrty |-> pi[isqrt(y)]]
     /\ threads' = thr
     /\ S2_total' = 0
     /\ low' = 1
     /\ segment_size' =
          Max(next_power_of_2(sqrt_limit \div (logx * thr)), min_segment_size)
     /\ segments_per_thread' = 1
     /\ phi_total' = [j \in 0 .. pi[y] |-> 0]
     /\ phi' = <<>> /\ mu_sum' = <<>> /\ wk' = <<>> /\ s2_i' = 0
     /\ s2_pc' = "wave"

\* the direct calls of S2, <<x, y, c>>: the ones that are made twice and all of them
S2RepeatInputs == {<<10000, 50, 2>>, <<3000, 30, 1>>}
S2Inputs == S2RepeatInputs \cup {<<20000, 60, 3>>, <<16900, 4, 2>>, <<121, 11, 2>>}

\* a call of S2 with the tables of y
S2Call(x, y, c, thr) ==
  /\ s2_pc = "idle"
  /\ lmo = <<>>
  /\ S2Enter(x, y, c, thr)
  /\ UNCHANGED <<s2_first, lmo>>

\* while (low < limit): the head of an iteration, up to the parallel for
WaveBegin ==
  /\ s2_pc = "wave"
  /\ low < s2_in.limit
  /\ LET segments == ceil_div(s2_in.limit - low, segment_size)
         thr == in_between(1, threads, segments)
         spt == in_between(1, segments_per_thread, ceil_div(segments, thr))
     IN /\ threads' = thr
        /\ segments_per_thread' = spt
        /\ phi' = [i \in 0 .. (thr - 1) |-> <<>>]
        /\ mu_sum' = [i \in 0 .. (thr - 1) |-> <<>>]
        /\ wk' = [i \in 0 .. (thr - 1) |-> NoLocals]
  /\ s2_pc' = "par"
  /\ UNCHANGED <<s2_in, low, segment_size, S2_total, phi_total, s2_i, s2_first, lmo>>

\* where S2_thread goes on when the index of the loops is b: the first loop
\* while b < min(pi_sqrty, size), the second loop while b < min(pi_y, size),
\* then the label next_segment
LoopPc(b, size) ==
  IF b < Min(s2_in.pi_sqrty, size) THEN "loop1"
  ELSE IF b < Min(s2_in.pi_y, size) THEN "loop2"
  ELSE "next_segment"

\* ThreadStart where the worker also clears the phi vector of thread 0
ThreadStartClearsFirst(i) ==
  /\ s2_pc = "par"
  /\ i \in DOMAIN wk
  /\ wk[i].pc = "call"
  /\ LET lo == low + segment_size * segments_per_thread * i
         lim == Min(lo + segment_size * segments_per_thread, s2_in.limit)
         size == pi[Min(isqrt(s2_in.x \div lo), s2_in.y)] + 1
     IN IF s2_in.c >= size - 1
          THEN /\ wk' = [wk EXCEPT ![i] = [NoLocals EXCEPT !.pc = "ret"]]
               /\ UNCHANGED <<phi, mu_sum>>
          ELSE /\ wk' = [wk EXCEPT ![i] =
                          [pc |-> "segment", low |-> lo, limit |-> lim, size |-> size,
                           S2_thread |-> 0,
                           sieve |-> BitSieveNew(segment_size),
                           counters |-> [j \in 0 .. (segment_size - 1) |-> 0],
                           next |-> init_next_multiples(size, lo),
                           b |-> 0, high |-> 0]]
               /\ phi' = [phi EXCEPT ![0] = [j \in 1 .. Max(Len(@), size) |-> 0],
                                     ![i] = [j \in 1 .. Max(Len(@), size) |-> 0]]
               /\ mu_sum' = [mu_sum EXCEPT ![i] = [j \in 1 .. size |-> 0]]
  /\ UNCHANGED <<s2_pc, s2_in, low, threads, segment_size, segments_per_thread,
                 S2_total, phi_total, s2_i, s2_first, lmo>>

\* ThreadStart with the test c > size - 1 for c >= size - 1
ThreadStartStrictTest(i) ==
  /\ s2_pc = "par"
  /\ i \in DOMAIN wk
  /\ wk[i].pc = "call"
  /\ LET lo == low + segment_size * segments_per_thread * i
         lim == Min(lo + segment_size * segments_per_thread, s2_in.limit)
         size == pi[Min(isqrt(s2_in.x \div lo), s2_in.y)] + 1
     IN IF s2_in.c > size - 1
          THEN /\ wk' = [wk EXCEPT ![i] = [NoLocals EXCEPT !.pc = "ret"]]
               /\ UNCHANGED <<phi, mu_sum>>
          ELSE /\ wk' = [wk EXCEPT ![i] =
                          [pc |-> "segment", low |-> lo, limit |-> lim, size |-> size,
                           S2_thread |-> 0,
                           sieve |-> BitSieveNew(segment_size),
                           counters |-> [j \in 0 .. (segment_size - 1) |-> 0],
                           next |-> init_next_multiples(size, lo),
                           b |-> 0, high |-> 0]]
               /\ phi' = [phi EXCEPT ![i] = [j \in 1 .. size |-> 0]]
               /\ mu_sum' = [mu_sum EXCEPT ![i] = [j \in 1 .. size |-> 0]]
  /\ UNCHANGED <<s2_pc, s2_in, low, threads, segment_size, segments_per_thread,
                 S2_total, phi_total, s2_i, s2_first, lmo>>

\* S2_thread, thread_num = i: from the call to the segment loop
ThreadStart(i) ==
  /\ s2_pc = "par"
  /\ i \in DOMAIN wk
  /\ wk[i].pc = "call"
  /\ LET lo == low + segment_size * segments_per_thread * i
         lim == Min(lo + segment_size * segments_per_thread, s2_in.limit)
         size == pi[Min(isqrt(s2_in.x \div lo), s2_in.y)] + 1
     IN IF s2_in.c >= size - 1
          THEN /\ wk' = [wk EXCEPT ![i] = [NoLocals EXCEPT !.pc = "ret"]]
               /\ UNCHANGED <<phi, mu_sum>>
          ELSE /\ wk' = [wk EXCEPT ![i] =
                          [pc |-> "segment", low |-> lo, limit |-> lim, size |-> size,
                           S2_thread |-> 0,
                           sieve |-> BitSieveNew(segment_size),
                           counters |-> [j \in 0 .. (segment_size - 1) |-> 0],
                           next |-> init_next_multiples(size, lo),
                           b |-> 0, high |-> 0]]
               /\ phi' = [phi EXCEPT ![i] = [j \in 1 .. size |-> 0]]
               /\ mu_sum' = [mu_sum EXCEPT ![i] = [j \in 1 .. size |-> 0]]
  /\ UNCHANGED <<s2_pc, s2_in, low, threads, segment_size, segments_per_thread,
                 S2_total, phi_total, s2_i, s2_first, lmo>>

\* the head of for (; low < limit; low += segment_size), entered from above or
\* from next_segment, then memset, the pre-sieve and cnt_finit
ThreadSegment(i) ==
  /\ s2_pc = "par"
  /\ i \in DOMAIN wk
  /\ wk[i].pc \in {"segment", "next_segment"}
  /\ LET w == wk[i]
         lo == IF w.pc = "next_segment" THEN w.low + segment_size ELSE w.low
     IN IF lo < w.limit
          THEN LET high == Min(lo + segment_size, w.limit)
                   b == Max(2, s2_in.c + 1)
                   r == PreSieve(2, s2_in.c, lo, high, Memset(w.sieve, lo), w.next)
               IN wk' = [wk EXCEPT ![i] =
                          [w EXCEPT !.pc = LoopPc(b, w.size), !.low = lo,
                                    !.high = high, !.b = b,
                                    !.sieve = r.sieve, !.next = r.next,
                                    !.counters = cnt_finit(r.sieve, segment_size)]]
          ELSE wk' = [wk EXCEPT ![i] =
                       [NoLocals EXCEPT !.pc = "ret", !.S2_thread = w.S2_thread]]
  /\ UNCHANGED <<s2_pc, s2_in, low, threads, segment_size, segments_per_thread,
                 S2_total, phi_total, phi, mu_sum, s2_i, s2_first, lmo>>

\* one iteration of for (; b < min(pi_sqrty, size); b++)
ThreadLoop1(i) ==
  /\ s2_pc = "par"
  /\ i \in DOMAIN wk
  /\ wk[i].pc = "loop1"
  /\ LET w == wk[i]
         x == s2_in.x
         y == s2_in.y
         prime == primes[w.b]
         min_m == Max(x \div (prime * w.high), y \div prime)
         max_m == Min(x \div (prime * w.low), y)
     IN IF prime >= max_m
          THEN \* goto next_segment
               /\ wk' = [wk EXCEPT ![i] = [w EXCEPT !.pc = "next_segment"]]
               /\ UNCHANGED <<phi, mu_sum>>
          ELSE LET lv == Leaves1(x, prime, w.low, phi[i][w.b + 1],
                                 w.counters, max_m, min_m)
                   co == cross_off(prime, w.low, w.high, w.next[w.b],
                                   w.sieve, w.counters, segment_size)
               IN /\ wk' = [wk EXCEPT ![i] =
                             [w EXCEPT !.S2_thread = @ + lv.S2_thread,
                                       !.sieve = co.sieve,
                                       !.counters = co.counters,
                                       !.next = [@ EXCEPT ![w.b] = co.next_multiple],
                                       !.b = w.b + 1,
                                       !.pc = LoopPc(w.b + 1, w.size)]]
                  /\ mu_sum' = [mu_sum EXCEPT ![i] = VecAdd(@, w.b, lv.mu_sum)]
                  /\ phi' = [phi EXCEPT ![i] =
                              VecAdd(@, w.b,
                                     cnt_query(w.counters, (w.high - 1) - w.low))]
  /\ UNCHANGED <<s2_pc, s2_in, low, threads, segment_size, segments_per_thread,
                 S2_total, phi_total, s2_i, s2_first, lmo>>

\* ThreadLoop2 whose test before the goto takes high for low
ThreadLoop2EarlyGoto(i) ==
  /\ s2_pc = "par"
  /\ i \in DOMAIN wk
  /\ wk[i].pc = "loop2"
  /\ LET w == wk[i]
         x == s2_in.x
         y == s2_in.y
         prime == primes[w.b]
         l == pi[Min(x \div (prime * w.low), y)]
         min_m == in_between(prime, Max(x \div (prime * w.high), y \div prime), y)
         min_l == pi[min_m]
     IN IF prime >= primes[pi[Min(x \div (prime * w.high), y)]]
          THEN \* goto next_segment
               /\ wk' = [wk EXCEPT ![i] = [w EXCEPT !.pc = "next_segment"]]
               /\ UNCHANGED <<phi, mu_sum>>
          ELSE LET lv == Leaves2(x, prime, w.low, phi[i][w.b + 1],
                                 w.counters, l, min_l)
                   co == cross_off(prime, w.low, w.high, w.next[w.b],
                                   w.sieve, w.counters, segment_size)
               IN /\ wk' = [wk EXCEPT ![i] =
                             [w EXCEPT !.S2_thread = @ + lv.S2_thread,
                                       !.sieve = co.sieve,
                                       !.counters = co.counters,
                                       !.next = [@ EXCEPT ![w.b] = co.next_multiple],
                                       !.b = w.b + 1,
                                       !.pc = LoopPc(w.b + 1, w.size)]]
                  /\ mu_sum' = [mu_sum EXCEPT ![i] = VecAdd(@, w.b, lv.mu_sum)]
                  /\ phi' = [phi EXCEPT ![i] =
                              VecAdd(@, w.b,
                                     cnt_query(w.counters, (w.high - 1) - w.low))]
  /\ UNCHANGED <<s2_pc, s2_in, low, threads, segment_size, segments_per_thread,
                 S2_total, phi_total, s2_i, s2_first, lmo>>

\* one iteration of for (; b < min(pi_y, size); b++)
ThreadLoop2(i) ==
  /\ s2_pc = "par"
  /\ i \in DOMAIN wk
  /\ wk[i].pc = "loop2"
  /\ LET w == wk[i]
         x == s2_in.x
         y == s2_in.y
         prime == primes[w.b]
         l == pi[Min(x \div (prime * w.low), y)]
         min_m == in_between(prime, Max(x \div (prime * w.high), y \div prime), y)
         min_l == pi[min_m]
     IN IF prime >= primes[l]
          THEN \* goto next_segment
               /\ wk' = [wk EXCEPT ![i] = [w EXCEPT !.pc = "next_segment"]]
               /\ UNCHANGED <<phi, mu_sum>>
          ELSE LET lv == Leaves2(x, prime, w.low, phi[i][w.b + 1],
                                 w.counters, l, min_l)
                   co == cross_off(prime, w.low, w.high, w.next[w.b],
                                   w.sieve, w.counters, segment_size)
               IN /\ wk' = [wk EXCEPT ![i] =
                             [w EXCEPT !.S2_thread = @ + lv.S2_thread,
                                       !.sieve = co.sieve,
                                       !.counters = co.counters,
                                       !.next = [@ EXCEPT ![w.b] = co.next_multiple],
                                       !.b = w.b + 1,
                                       !.pc = LoopPc(w.b + 1, w.size)]]
                  /\ mu_sum' = [mu_sum EXCEPT ![i] = VecAdd(@, w.b, lv.mu_sum)]
                  /\ phi' = [phi EXCEPT ![i] =
                              VecAdd(@, w.b,
                                     cnt_query(w.counters, (w.high - 1) - w.low))]
  /\ UNCHANGED <<s2_pc, s2_in, low, threads, segment_size, segments_per_thread,
                 S2_total, phi_total, s2_i, s2_first, lmo>>

RECURSIVE SumReturns(_, _)
\* reduction(+: S2_total): the sum of the values returned by the threads 0 .. i
SumReturns(w, i) == IF i < 0 THEN 0 ELSE w[i].S2_thread + SumReturns(w, i - 1)

\* WaveJoin without low += segments_per_thread * threads * segment_size
WaveJoinNoAdvance(fast) ==
  /\ s2_pc = "par"
  /\ \A i \in DOMAIN wk : wk[i].pc = "ret"
  /\ S2_total' = S2_total + SumReturns(wk, threads - 1)
  /\ s2_pc' = "combine"
  /\ s2_i' = 0
  /\ UNCHANGED <<s2_in, low, segment_size, segments_per_thread, threads, phi_total,
                 phi, mu_sum, wk, s2_first, lmo>>

\* WaveJoin where low goes on by one segment for each thread only
WaveJoinOneSegment(fast) ==
  /\ s2_pc = "par"
  /\ \A i \in DOMAIN wk : wk[i].pc = "ret"
  /\ S2_total' = S2_total + SumReturns(wk, threads - 1)
  /\ low' = low + threads * segment_size
  /\ IF low' > s2_in.sqrt_limit /\ fast
       THEN IF segment_size < s2_in.sqrt_limit
              THEN /\ segment_size' = segment_size * 2
                   /\ UNCHANGED segments_per_thread
              ELSE /\ segments_per_thread' = segments_per_thread * 2
                   /\ UNCHANGED segment_size
       ELSE UNCHANGED <<segment_size, segments_per_thread>>
  /\ s2_pc' = "combine"
  /\ s2_i' = 0
  /\ UNCHANGED <<s2_in, threads, phi_total, phi, mu_sum, wk, s2_first, lmo>>

\* WaveJoin where a fast wave adds the half of segment_size to it
WaveJoinGrowByHalf(fast) ==
  /\ s2_pc = "par"
  /\ \A i \in DOMAIN wk : wk[i].pc = "ret"
  /\ S2_total' = S2_total + SumReturns(wk, threads - 1)
  /\ low' = low + segments_per_thread * threads * segment_size
  /\ IF low' > s2_in.sqrt_limit /\ fast
       THEN IF segment_size < s2_in.sqrt_limit
              THEN /\ segment_size' = segment_size + (segment_size \div 2)
                   /\ UNCHANGED segments_per_thread
              ELSE /\ segments_per_thread' = segments_per_thread * 2
                   /\ UNCHANGED segment_size
       ELSE UNCHANGED <<segment_size, segments_per_thread>>
  /\ s2_pc' = "combine"
  /\ s2_i' = 0
  /\ UNCHANGED <<s2_in, threads, phi_total, phi, mu_sum, wk, s2_first, lmo>>

\* WaveJoin where every fast wave doubles, wherever low has got to
WaveJoinAnyLow(fast) ==
  /\ s2_pc = "par"
  /\ \A i \in DOMAIN wk : wk[i].pc = "ret"
  /\ S2_total' = S2_total + SumReturns(wk, threads - 1)
  /\ low' = low + segments_per_thread * threads * segment_size
  /\ IF fast
       THEN IF segment_size < s2_in.sqrt_limit
              THEN /\ segment_size' = segment_size * 2
                   /\ UNCHANGED segments_per_thread
              ELSE /\ segments_per_thread' = segments_per_thread * 2
                   /\ UNCHANGED segment_size
       ELSE UNCHANGED <<segment_size, segments_per_thread>>
  /\ s2_pc' = "combine"
  /\ s2_i' = 0
  /\ UNCHANGED <<s2_in, threads, phi_total, phi, mu_sum, wk, s2_first, lmo>>

\* WaveJoin where a wave that was not fast halves segments_per_thread
WaveJoinShrink(fast) ==
  /\ s2_pc = "par"
  /\ \A i \in DOMAIN wk : wk[i].pc = "ret"
  /\ S2_total' = S2_total + SumReturns(wk, threads - 1)
  /\ low' = low + segments_per_thread * threads * segment_size
  /\ IF low' > s2_in.sqrt_limit /\ fast
       THEN IF segment_size < s2_in.sqrt_limit
              THEN /\ segment_size' = segment_size * 2
                   /\ UNCHANGED segments_per_thread
              ELSE /\ segments_per_thread' = segments_per_thread * 2
                   /\ UNCHANGED segment_size
       ELSE /\ segments_per_thread' = Max(1, segments_per_thread \div 2)
            /\ UNCHANGED segment_size
  /\ s2_pc' = "combine"
  /\ s2_i' = 0
  /\ UNCHANGED <<s2_in, threads, phi_total, phi, mu_sum, wk, s2_first, lmo>>

\* the end of the parallel for, low += ..., and the adaptation of segment_size and
\* segments_per_thread; fast is (seconds < 10)
WaveJoin(fast) ==
  /\ s2_pc = "par"
  /\ \A i \in DOMAIN wk : wk[i].pc = "ret"
  /\ S2_total' = S2_total + SumReturns(wk, threads - 1)
  /\ low' = low + segments_per_thread * threads * segment_size
  /\ IF low' > s2_in.sqrt_limit /\ fast
       THEN IF segment_size < s2_in.sqrt_limit
              THEN /\ segment_size' = segment_size * 2
                   /\ UNCHANGED segments_per_thread
              ELSE /\ segments_per_thread' = segments_per_thread * 2
                   /\ UNCHANGED segment_size
       ELSE UNCHANGED <<segment_size, segments_per_thread>>
  /\ s2_pc' = "combine"
  /\ s2_i' = 0
  /\ UNCHANGED <<s2_in, threads, phi_total, phi, mu_sum, wk, s2_first, lmo>>

\* a combine loop that takes the threads of the wave from the last to the first
CombineBackwards ==
  /\ s2_pc = "combine"
  /\ s2_i < threads
  /\ LET t == threads - 1 - s2_i
         r == CombineThread(S2_total, phi_total, phi[t], mu_sum[t], 1)
     IN /\ S2_total' = r.S2_total
        /\ phi_total' = r.phi_total
  /\ s2_i' = s2_i + 1
  /\ UNCHANGED <<s2_pc, s2_in, low, threads, segment_size, segments_per_thread,
                 phi, mu_sum, wk, s2_first, lmo>>

\* one iteration i of the outer combine loop
Combine ==
  /\ s2_pc = "combine"
  /\ s2_i < threads
  /\ LET r == CombineThread(S2_total, phi_total, phi[s2_i], mu_sum[s2_i], 1)
     IN /\ S2_total' = r.S2_total
        /\ phi_total' = r.phi_total
  /\ s2_i' = s2_i + 1
  /\ UNCHANGED <<s2_pc, s2_in, low, threads, segment_size, segments_per_thread,
                 phi, mu_sum, wk, s2_first, lmo>>

\* the end of the combine loop and of the while body: phi and mu_sum go out of scope
CombineDone ==
  /\ s2_pc = "combine"
  /\ s2_i >= threads
  /\ s2_pc' = "wave"
  /\ phi' = <<>> /\ mu_sum' = <<>> /\ wk' = <<>>
  /\ UNCHANGED <<s2_in, low, threads, segment_size, segments_per_thread, S2_total,
                 phi_total, s2_i, s2_first, lmo>>

\* while (low < limit) fails: return S2_total
S2Return ==
  /\ s2_pc = "wave"
  /\ low >= s2_in.limit
  /\ s2_pc' = "done"
  /\ UNCHANGED <<s2_in, low, threads, segment_size, segments_per_thread, S2_total,
                 phi_total, phi, mu_sum, wk, s2_i, s2_first, lmo>>

\* S2 is called again with the same x, y, c and tables; s2_first keeps what the
\* call that returned has computed
S2Recall(thr) ==
  /\ s2_pc = "done"
  /\ lmo = <<>>
  /\ s2_first = <<>>
  /\ <<s2_in.x, s2_in.y, s2_in.c>> \in S2RepeatInputs
  /\ s2_first' = [S2_total |-> S2_total, threads |-> s2_in.threads,
                  segments_per_thread |-> segments_per_thread]
  /\ S2Enter(s2_in.x, s2_in.y, s2_in.c, thr)
  /\ UNCHANGED lmo

(***************************************************************************)
(* pi_lmo_parallel3(x, threads)                                            *)
(***************************************************************************)
IRootMax == 32       \* the roots iroot<3>(x) and iroot<6>(x) are looked for in 1..IRootMax
LMOMaxX == 130       \* pi_lmo_parallel3 is called with every x in 0..LMOMaxX

MAX_A == 7           \* PhiTiny::MAX_A

\* iroot<N>(x): the largest r with r^N <= x
iroot(n, x) == Cardinality({r \in 1 .. IRootMax : r ^ n <= x})

\* (int64_t)(x13 * log(log((double) x))) for x with iroot<3>(x) = x13: its value at
\* x = x13^3 and the x up to (x13 + 1)^3 - 1 where it goes up by one
LogLogSteps ==
  (4 :> [base |-> 5, steps |-> <<89>>]) @@
  (5 :> [base |-> 7, steps |-> <<142>>]) @@
  (12 :> [base |-> 24, steps |-> <<>>]) @@
  (30 :> [base |-> 69, steps |-> <<>>]) @@
  (31 :> [base |-> 72, steps |-> <<>>])

LogLogFloor(x13, x) ==
  LogLogSteps[x13].base
    + Cardinality({k \in DOMAIN LogLogSteps[x13].steps : LogLogSteps[x13].steps[k] <= x})

\* alpha = in_between(1, log(log(x)) * beta, iroot<6>(x)); y = (int64_t)(x13 * alpha)
alpha_y(x) ==
  LET x13 == iroot(3, x)
      x16 == iroot(6, x)
  IN IF x16 <= 1 THEN x13
     ELSE in_between(x13, LogLogFloor(x13, x), x13 * x16)

\* the x above LMOMaxX that pi_lmo_parallel3 is called with
LMOLargeXs == {1728, 28405, 30000}
\* the negative x that pi_lmo_parallel3 is called with
LMONegativeXs == {-1, -2, -30000}
LMOXs == (0 .. LMOMaxX) \cup LMOLargeXs \cup LMONegativeXs

\* the number of primes <= x, by trial division
PrimePi == [x \in LMOXs |-> Cardinality({q \in 2 .. x : IsPrime(q)})]

RECURSIVE Phi(_, _)
\* phi(n, a): the number of k in 1..n that none of the first a primes divides
Phi(n, a) ==
  IF a = 0 \/ n = 0 THEN n
  ELSE Phi(n, a - 1) - Phi(n \div primes[a], a - 1)

RECURSIVE SumS1(_, _, _)
\* S1(x, y, c, primes, lpf, mu): the ordinary leaves,
\* the sum of mu[m] * phi(x / m, c) over the m <= y with mu[m] # 0, lpf[m] > primes[c]
SumS1(x, m, c) ==
  IF m < 1 THEN 0
  ELSE SumS1(x, m - 1, c)
       + (IF mu[m] # 0 /\ lpf[m] > primes[c] THEN mu[m] * Phi(x \div m, c) ELSE 0)

S1(x, y, c) == SumS1(x, y, c)

RECURSIVE SumP2(_, _, _)
\* P2(x, y, threads): the sum of pi(x / p) - pi(p) + 1 over the primes y < p <= sqrt(x)
SumP2(x, p, y) ==
  IF p <= y THEN 0
  ELSE SumP2(x, p - 1, y)
       + (IF IsPrime(p)
            THEN Cardinality({q \in (p + 1) .. (x \div p) : IsPrime(q)}) + 1
            ELSE 0)

P2(x, y) == SumP2(x, isqrt(x), y)

\* pi_lmo_parallel3 where c counts only the primes whose square is <= y
LMOCallSquareCutoff(x, thr) ==
  /\ s2_pc = "idle"
  /\ lmo = <<>>
  /\ IF x < 2
       THEN /\ lmo' = [x |-> x, y |-> 0, pi_y |-> 0, c |-> 0, s1 |-> 0,
                       pc |-> "done", sum |-> 0]
            /\ UNCHANGED <<s2_pc, s2_in, low, threads, segment_size,
                           segments_per_thread, S2_total, phi_total, phi, mu_sum,
                           wk, s2_i>>
       ELSE LET y == alpha_y(x)
                pi_y == pi[y]
                c == Min(MAX_A, Max(0, pi[isqrt(y)] - 1))
            IN /\ lmo' = [x |-> x, y |-> y, pi_y |-> pi_y, c |-> c,
                          s1 |-> S1(x, y, c), pc |-> "S2", sum |-> 0]
               /\ S2Enter(x, y, c, thr)
  /\ UNCHANGED s2_first

\* pi_lmo_parallel3(x, threads) up to the call of S2
LMOCall(x, thr) ==
  /\ s2_pc = "idle"
  /\ lmo = <<>>
  /\ IF x < 2
       THEN /\ lmo' = [x |-> x, y |-> 0, pi_y |-> 0, c |-> 0, s1 |-> 0,
                       pc |-> "done", sum |-> 0]
            /\ UNCHANGED <<s2_pc, s2_in, low, threads, segment_size,
                           segments_per_thread, S2_total, phi_total, phi, mu_sum,
                           wk, s2_i>>
       ELSE LET y == alpha_y(x)
                pi_y == pi[y]
                c == Min(MAX_A, pi_y)
            IN /\ lmo' = [x |-> x, y |-> y, pi_y |-> pi_y, c |-> c,
                          s1 |-> S1(x, y, c), pc |-> "S2", sum |-> 0]
               /\ S2Enter(x, y, c, thr)
  /\ UNCHANGED s2_first

\* S2 has returned: P2 and the sum
LMOReturn ==
  /\ lmo # <<>>
  /\ lmo.pc = "S2"
  /\ s2_pc = "done"
  /\ LET p2 == P2(lmo.x, lmo.y)
         phi_x == lmo.s1 + S2_total
     IN lmo' = [lmo EXCEPT !.pc = "done", !.sum = phi_x + lmo.pi_y - 1 - p2]
  /\ UNCHANGED <<s2_pc, s2_in, low, threads, segment_size, segments_per_thread,
                 S2_total, phi_total, phi, mu_sum, wk, s2_i, s2_first>>

LMOInit == BSIdle /\ PTIdle /\ S2Idle /\ SGIdle /\ RRIdle

LMONext ==
  \/ \E x \in LMOXs, thr \in 1 .. S2MaxThreads :
       LMOCall(x, thr) /\ UNCHANGED <<bsVars, ptVars, sgVars, rrVars>>
  \/ \E in \in S2Inputs, thr \in 1 .. S2MaxThreads :
       S2Call(in[1], in[2], in[3], thr) /\ UNCHANGED <<bsVars, ptVars, sgVars, rrVars>>
  \/ WaveBegin /\ UNCHANGED <<bsVars, ptVars, sgVars, rrVars>>
  \/ \E i \in 0 .. (S2MaxThreads - 1) : ThreadStart(i) /\ UNCHANGED <<bsVars, ptVars, sgVars, rrVars>>
  \/ \E i \in 0 .. (S2MaxThreads - 1) : ThreadSegment(i) /\ UNCHANGED <<bsVars, ptVars, sgVars, rrVars>>
  \/ \E i \in 0 .. (S2MaxThreads - 1) : ThreadLoop1(i) /\ UNCHANGED <<bsVars, ptVars, sgVars, rrVars>>
  \/ \E i \in 0 .. (S2MaxThreads - 1) : ThreadLoop2(i) /\ UNCHANGED <<bsVars, ptVars, sgVars, rrVars>>
  \/ \E fast \in BOOLEAN : WaveJoin(fast) /\ UNCHANGED <<bsVars, ptVars, sgVars, rrVars>>
  \/ Combine /\ UNCHANGED <<bsVars, ptVars, sgVars, rrVars>>
  \/ CombineDone /\ UNCHANGED <<bsVars, ptVars, sgVars, rrVars>>
  \/ S2Return /\ UNCHANGED <<bsVars, ptVars, sgVars, rrVars>>
  \/ \E thr \in 1 .. S2MaxThreads : S2Recall(thr) /\ UNCHANGED <<bsVars, ptVars, sgVars, rrVars>>
  \/ LMOReturn /\ UNCHANGED <<bsVars, ptVars, sgVars, rrVars>>

SpecLMO == LMOInit /\ [][LMONext]_vars

\* the calls S2(x, y, c, threads) whose waves are followed to the return
WaveInputs == {<<3000, 30, 1>>, <<121, 11, 2>>, <<2100, 13, 2>>}

\* the steps of one call of S2
S2Step ==
  \/ WaveBegin /\ UNCHANGED <<bsVars, ptVars, sgVars, rrVars>>
  \/ \E i \in 0 .. (WaveMaxThreads - 1) : ThreadStart(i) /\ UNCHANGED <<bsVars, ptVars, sgVars, rrVars>>
  \/ \E i \in 0 .. (WaveMaxThreads - 1) : ThreadSegment(i) /\ UNCHANGED <<bsVars, ptVars, sgVars, rrVars>>
  \/ \E i \in 0 .. (WaveMaxThreads - 1) : ThreadLoop1(i) /\ UNCHANGED <<bsVars, ptVars, sgVars, rrVars>>
  \/ \E i \in 0 .. (WaveMaxThreads - 1) : ThreadLoop2(i) /\ UNCHANGED <<bsVars, ptVars, sgVars, rrVars>>
  \/ \E fast \in BOOLEAN : WaveJoin(fast) /\ UNCHANGED <<bsVars, ptVars, sgVars, rrVars>>
  \/ Combine /\ UNCHANGED <<bsVars, ptVars, sgVars, rrVars>>
  \/ CombineDone /\ UNCHANGED <<bsVars, ptVars, sgVars, rrVars>>
  \/ S2Return /\ UNCHANGED <<bsVars, ptVars, sgVars, rrVars>>

WaveNext ==
  \/ \E in \in WaveInputs, thr \in 1 .. WaveMaxThreads :
       S2Call(in[1], in[2], in[3], thr) /\ UNCHANGED <<bsVars, ptVars, sgVars, rrVars>>
  \/ S2Step

\* the master thread and every worker of the parallel for go on running: a
\* step of the call that can be taken is taken
SpecWaves == LMOInit /\ [][WaveNext]_vars /\ WF_vars(S2Step)

(***************************************************************************)
(* S2_thread, one call, one step for every leaf candidate, for the refresh  *)
(* of phi[b] and for cross_off, to see the order of what a segment does     *)
(***************************************************************************)
\* the calls: <<x, y, c, segment_size, segments_per_thread, thread_num, low>>,
\* limit being x / y + 1 as in S2
SgInputs ==
  {<<10000, 50, 2, 64, 2, 0, 1>>, <<10000, 50, 2, 64, 2, 0, 129>>,
   <<3000, 30, 1, 64, 1, 1, 1>>, <<20000, 60, 3, 64, 2, 1, 129>>,
   <<16900, 4, 2, 64, 1, 0, 1>>, <<20000, 60, 3, 64, 2, 0, 1>>,
   <<3000, 30, 1, 64, 1, 0, 1>>}

\* S2_thread from the call to the segment loop
SgCall(x, y, c, ssize, spt, thread_num, low0) ==
  /\ IF sg = <<>> THEN TRUE ELSE sg.pc = "ret"
  /\ LET lo == low0 + ssize * spt * thread_num
         lim == Min(lo + ssize * spt, (x \div y) + 1)
         size == pi[Min(isqrt(x \div lo), y)] + 1
         args == [x |-> x, y |-> y, c |-> c, pi_y |-> pi[y],
                  pi_sqrty |-> pi[isqrt(y)], ssize |-> ssize]
         none == [low |-> lo, limit |-> lim, size |-> size, S2_thread |-> 0,
                  sieve |-> <<>>, counters |-> <<>>, next |-> <<>>,
                  phi |-> <<>>, mu_sum |-> <<>>,
                  b |-> 0, high |-> 0, loop |-> 0, m |-> 0, min_m |-> 0, max_m |-> 0]
     IN IF c >= size - 1
          THEN sg' = args @@ [pc |-> "ret"] @@ none
          ELSE sg' = args @@ [pc |-> "segment"] @@
                     [none EXCEPT !.sieve = BitSieveNew(ssize),
                                  !.counters = [j \in 0 .. (ssize - 1) |-> 0],
                                  !.next = init_next_multiples(size, lo),
                                  !.phi = [j \in 1 .. size |-> 0],
                                  !.mu_sum = [j \in 1 .. size |-> 0]]

\* the head of for (; low < limit; low += segment_size), then memset, the
\* pre-sieve and cnt_finit
SgSegment ==
  /\ sg # <<>>
  /\ sg.pc = "segment"
  /\ IF sg.low < sg.limit
       THEN LET high == Min(sg.low + sg.ssize, sg.limit)
                r == PreSieve(2, sg.c, sg.low, high, Memset(sg.sieve, sg.low), sg.next)
            IN sg' = [sg EXCEPT !.pc = "head", !.high = high,
                                !.b = Max(2, sg.c + 1),
                                !.sieve = r.sieve, !.next = r.next,
                                !.counters = cnt_finit(r.sieve, sg.ssize)]
       ELSE sg' = [sg EXCEPT !.pc = "ret"]

\* the head of an iteration b of the two loops with a cross_off before the leaves
SgHeadCrossOffFirst ==
  /\ sg # <<>>
  /\ sg.pc = "head"
  /\ LET prime == primes[sg.b]
         co == cross_off(prime, sg.low, sg.high, sg.next[sg.b], sg.sieve,
                         sg.counters, sg.ssize)
     IN IF sg.b < Min(sg.pi_sqrty, sg.size)
          THEN LET min_m == Max(sg.x \div (prime * sg.high), sg.y \div prime)
                   max_m == Min(sg.x \div (prime * sg.low), sg.y)
               IN IF prime >= max_m
                    THEN sg' = [sg EXCEPT !.pc = "next_segment"]
                    ELSE sg' = [sg EXCEPT !.pc = "leaves", !.loop = 1, !.m = max_m,
                                          !.max_m = max_m, !.min_m = min_m,
                                          !.sieve = co.sieve, !.counters = co.counters]
        ELSE IF sg.b < Min(sg.pi_y, sg.size)
          THEN LET l == pi[Min(sg.x \div (prime * sg.low), sg.y)]
                   min_m == in_between(prime,
                                       Max(sg.x \div (prime * sg.high), sg.y \div prime),
                                       sg.y)
                   min_l == pi[min_m]
               IN IF prime >= primes[l]
                    THEN sg' = [sg EXCEPT !.pc = "next_segment"]
                    ELSE sg' = [sg EXCEPT !.pc = "leaves", !.loop = 2, !.m = l,
                                          !.max_m = l, !.min_m = min_l,
                                          !.sieve = co.sieve, !.counters = co.counters]
        ELSE sg' = [sg EXCEPT !.pc = "next_segment"]

\* the head of an iteration b: the test of the first loop, b < min(pi_sqrty, size),
\* or of the second, b < min(pi_y, size), the bounds of the candidates and the
\* test before goto next_segment
SgHead ==
  /\ sg # <<>>
  /\ sg.pc = "head"
  /\ LET prime == primes[sg.b]
     IN IF sg.b < Min(sg.pi_sqrty, sg.size)
          THEN LET min_m == Max(sg.x \div (prime * sg.high), sg.y \div prime)
                   max_m == Min(sg.x \div (prime * sg.low), sg.y)
               IN IF prime >= max_m
                    THEN sg' = [sg EXCEPT !.pc = "next_segment"]
                    ELSE sg' = [sg EXCEPT !.pc = "leaves", !.loop = 1, !.m = max_m,
                                          !.max_m = max_m, !.min_m = min_m]
        ELSE IF sg.b < Min(sg.pi_y, sg.size)
          THEN LET l == pi[Min(sg.x \div (prime * sg.low), sg.y)]
                   min_m == in_between(prime,
                                       Max(sg.x \div (prime * sg.high), sg.y \div prime),
                                       sg.y)
                   min_l == pi[min_m]
               IN IF prime >= primes[l]
                    THEN sg' = [sg EXCEPT !.pc = "next_segment"]
                    ELSE sg' = [sg EXCEPT !.pc = "leaves", !.loop = 2, !.m = l,
                                          !.max_m = l, !.min_m = min_l]
        ELSE sg' = [sg EXCEPT !.pc = "next_segment"]

\* one iteration of for (m = max_m; m > min_m; m--) or of for (; l > min_l; l--)
SgLeaf ==
  /\ sg # <<>>
  /\ sg.pc = "leaves"
  /\ sg.m > sg.min_m
  /\ LET prime == primes[sg.b]
         m == IF sg.loop = 1 THEN sg.m ELSE primes[sg.m]
         n == prime * m
         count == cnt_query(sg.counters, (sg.x \div n) - sg.low)
         phi_xn == sg.phi[sg.b + 1] + count
     IN IF sg.loop = 1
          THEN IF mu[m] # 0 /\ prime < lpf[m]
                 THEN sg' = [sg EXCEPT !.S2_thread = @ - mu[m] * phi_xn,
                                       !.mu_sum = VecAdd(@, sg.b, 0 - mu[m]),
                                       !.m = sg.m - 1]
                 ELSE sg' = [sg EXCEPT !.m = sg.m - 1]
          ELSE sg' = [sg EXCEPT !.S2_thread = @ + phi_xn,
                                !.mu_sum = VecAdd(@, sg.b, 1),
                                !.m = sg.m - 1]

\* phi[b] += cnt_query(counters, (high - 1) - low)
SgRefresh ==
  /\ sg # <<>>
  /\ sg.pc = "leaves"
  /\ sg.m <= sg.min_m
  /\ sg' = [sg EXCEPT !.pc = "cross",
                      !.phi = VecAdd(@, sg.b,
                                     cnt_query(sg.counters, (sg.high - 1) - sg.low))]

\* cross_off(prime, low, high, next[b], sieve, counters) and b++
SgCrossOff ==
  /\ sg # <<>>
  /\ sg.pc = "cross"
  /\ LET co == cross_off(primes[sg.b], sg.low, sg.high, sg.next[sg.b], sg.sieve,
                         sg.counters, sg.ssize)
     IN sg' = [sg EXCEPT !.pc = "head", !.b = sg.b + 1,
                         !.sieve = co.sieve, !.counters = co.counters,
                         !.next = [@ EXCEPT ![sg.b] = co.next_multiple]]

\* next_segment: low += segment_size
SgNextSegment ==
  /\ sg # <<>>
  /\ sg.pc = "next_segment"
  /\ sg' = [sg EXCEPT !.pc = "segment", !.low = sg.low + sg.ssize]

SgInit == BSIdle /\ PTIdle /\ S2Idle /\ SGIdle /\ RRIdle

SgNext ==
  \/ \E in \in SgInputs :
       SgCall(in[1], in[2], in[3], in[4], in[5], in[6], in[7])
         /\ UNCHANGED <<bsVars, ptVars, s2Vars, rrVars>>
  \/ SgSegment /\ UNCHANGED <<bsVars, ptVars, s2Vars, rrVars>>
  \/ SgHead /\ UNCHANGED <<bsVars, ptVars, s2Vars, rrVars>>
  \/ SgLeaf /\ UNCHANGED <<bsVars, ptVars, s2Vars, rrVars>>
  \/ SgRefresh /\ UNCHANGED <<bsVars, ptVars, s2Vars, rrVars>>
  \/ SgCrossOff /\ UNCHANGED <<bsVars, ptVars, s2Vars, rrVars>>
  \/ SgNextSegment /\ UNCHANGED <<bsVars, ptVars, s2Vars, rrVars>>

SpecSegment == SgInit /\ [][SgNext]_vars


(***************************************************************************)
(* RiemannR.cpp: RiemannR_inverse and RiemannR_inverse_overflow_check.     *)
(* T is a signed integer type of TBits bits and FLOAT a binary floating    *)
(* point type whose mantissa has FloatDigits bits; only the integers that  *)
(* FLOAT holds are kept.  The values of log and of the Gram series depend  *)
(* on the libc: the first approximation and every Newton term are any of   *)
(* the values of a range.                                                  *)
(***************************************************************************)
RECURSIVE Pow2(_)
Pow2(n) == IF n = 0 THEN 1 ELSE 2 * Pow2(n - 1)

\* std::numeric_limits<T>::max() and min()
TMax == Pow2(TBits - 1) - 1
TMin == 0 - Pow2(TBits - 1)

\* the floats go up to FloatTop
FloatTop == Pow2(TBits)

RECURSIVE FloatUnit(_, _)
\* the distance of two neighbouring FLOAT values at n >= 0, from u upwards
FloatUnit(n, u) == IF n < u * Pow2(FloatDigits) THEN u ELSE FloatUnit(n, 2 * u)

\* the conversion (FLOAT) n of an integer n: the nearest value of FLOAT, the
\* one with the even mantissa when two are as near
FloatOf(n) ==
  LET a == IF n < 0 THEN 0 - n ELSE n
      u == FloatUnit(a, 1)
      q == a \div u
      r == a % u
      up == 2 * r > u \/ (2 * r = u /\ q % 2 = 1)
      f == IF up THEN (q + 1) * u ELSE q * u
  IN IF n < 0 THEN 0 - f ELSE f

\* the integers that FLOAT holds, from 0 to FloatTop
FloatValues == {f \in 0 .. FloatTop : FloatOf(f) = f}

\* std::numeric_limits<T>::infinity() as the first old_term
TermInfinity == TermMax + 1

\* std::abs
Abs(a) == IF a < 0 THEN 0 - a ELSE a

\* the integers x that RiemannR_inverse(T x) is called with
RRXs == {-1, 0, 1, 2, 3, 5, TMax - 1, TMax}

\* RiemannR_inverse_overflow_check up to the loop of RiemannR_inverse:
\* (FLOAT) x, t = initialNthPrimeApprox(x), if (x < 3) return t
RRCall(x) ==
  /\ IF rr = <<>> THEN TRUE ELSE rr.pc = "ret"
  /\ LET xf == FloatOf(x)
         none == [x |-> x, xf |-> xf, i |-> 0, old_term |-> TermInfinity,
                  term |-> 0, res |-> 0, result |-> 0, out_of_range |-> FALSE]
     IN IF xf < 1
          THEN rr' = none @@ [pc |-> "check", t |-> 0]
        ELSE IF xf < 2
          THEN rr' = none @@ [pc |-> "check", t |-> 2]
        ELSE IF xf < 3
          THEN rr' = none @@ [pc |-> "check", t |-> 3]
        ELSE \E t \in FloatValues :
               /\ t >= xf
               /\ rr' = none @@ [pc |-> "newton", t |-> t]

\* one iteration of for (int i = 0; i < 100; i++), or its end
RRNewton ==
  /\ rr # <<>>
  /\ rr.pc = "newton"
  /\ IF rr.i < NewtonIters
       THEN \E term \in (0 - TermMax) .. TermMax :
              IF Abs(term) >= Abs(rr.old_term)
                THEN rr' = [rr EXCEPT !.pc = "check", !.term = term]
                ELSE /\ FloatOf(rr.t - term) \in FloatValues
                     /\ FloatOf(rr.t - term) >= 1
                     /\ rr' = [rr EXCEPT !.t = FloatOf(rr.t - term),
                                         !.old_term = term, !.term = term,
                                         !.i = rr.i + 1]
       ELSE rr' = [rr EXCEPT !.pc = "check"]

\* res = RiemannR_inverse((FLOAT) x), the test res > (FLOAT) max and the
\* return of max or of (T) res; a (T) res of a res that T does not hold is
\* undefined: the value is any of the two ends of T
RRCheck ==
  /\ rr # <<>>
  /\ rr.pc = "check"
  /\ LET res == rr.t
     IN IF res > FloatOf(TMax)
          THEN rr' = [rr EXCEPT !.pc = "ret", !.res = res, !.result = TMax]
        ELSE IF TMin <= res /\ res <= TMax
          THEN rr' = [rr EXCEPT !.pc = "ret", !.res = res, !.result = res]
        ELSE \E v \in {TMin, TMax} :
               rr' = [rr EXCEPT !.pc = "ret", !.res = res, !.result = v,
                                !.out_of_range = TRUE]

RRInit == BSIdle /\ PTIdle /\ S2Idle /\ SGIdle /\ RRIdle

RRNext ==
  \/ \E x \in RRXs : RRCall(x) /\ UNCHANGED <<bsVars, ptVars, s2Vars, sgVars>>
  \/ RRNewton /\ UNCHANGED <<bsVars, ptVars, s2Vars, sgVars>>
  \/ RRCheck /\ UNCHANGED <<bsVars, ptVars, s2Vars, sgVars>>

SpecRiemannR == RRInit /\ [][RRNext]_vars

(***************************************************************************)
(* Claims about pi_lmo_parallel3, S2 and S2_thread                         *)
(***************************************************************************)
\* a call of pi_lmo_parallel3 has returned
LMODone == lmo # <<>> /\ lmo.pc = "done"

\* C1: pi_lmo_parallel3(x, threads) returns the number of primes <= x for every
\* x >= 0 it is called with and every threads >= 1, S1 and P2 being their
\* mathematical values; it returns 0 for x = 0 and x = 1 and 1 for x = 2.
C1_ReturnsPrimePi ==
  LMODone =>
    /\ lmo.sum = PrimePi[lmo.x]
    /\ (lmo.x \in {0, 1} => lmo.sum = 0)
    /\ (lmo.x = 2 => lmo.sum = 1)

\* a call with several threads has returned whose smallest special leaf
\* n = primes[c + 1] * primes[c + 2] has x / n in the second segment
C1_Witness ==
  /\ LMODone
  /\ lmo.x > LMOMaxX
  /\ lmo.sum = PrimePi[lmo.x]
  /\ S2_total > 0
  /\ s2_in.threads > 1
  /\ lmo.c + 2 <= lmo.pi_y
  /\ lmo.x \div (primes[lmo.c + 1] * primes[lmo.c + 2]) > min_segment_size

\* S2 has returned for the second time with the same x, y, c and tables
S2Twice == s2_pc = "done" /\ s2_first # <<>>

\* C2: for fixed x, y, c and tables, S2 with any number of threads returns the
\* value that S2 with a single thread returns.
C2_SameForEveryThreadCount ==
  (S2Twice /\ s2_first.threads = 1) => S2_total = s2_first.S2_total

\* a single-threaded call and a call whose first wave had several workers, with
\* leaves in more than one segment
C2_Witness ==
  /\ S2Twice
  /\ s2_first.threads = 1
  /\ s2_in.threads > 1
  /\ s2_in.limit > 2 * min_segment_size
  /\ S2_total = s2_first.S2_total
  /\ S2_total > 0
  /\ \E j \in DOMAIN phi_total : phi_total[j] > 32

\* C3: two calls of S2 with the same inputs (the thread count included) return
\* the same value, whatever seconds was measured for each wave and in whatever
\* order the workers of a wave ran.
C3_SameForEveryTiming ==
  (S2Twice /\ s2_first.threads = s2_in.threads) => S2_total = s2_first.S2_total

\* the first call never was fast (segments_per_thread still 1), the second was:
\* the two calls have cut the segments into different waves
C3_Witness ==
  /\ S2Twice
  /\ s2_first.threads = s2_in.threads
  /\ s2_first.segments_per_thread = 1
  /\ segments_per_thread > 2
  /\ S2_total = s2_first.S2_total
  /\ S2_total > 0
  /\ \E j \in DOMAIN phi_total : phi_total[j] > 32

\* a worker is inside the loops of a segment: cnt_finit has run and the primes
\* up to index b - 1 have been sieved out
InLoops(i) == s2_pc = "par" /\ wk[i].pc \in {"loop1", "loop2", "next_segment"}

\* n has no prime divisor <= primes[b]
NoPrimeDivisor(n, b) == \A a \in 1 .. b : n % primes[a] # 0

\* the sieve of worker i agrees with the divisibility by the primes up to
\* index b - 1 at every number from of its segment on
SieveIsCoprimes(i, from) ==
  \A k \in 0 .. (wk[i].high - wk[i].low - 1) :
    wk[i].low + k >= from =>
      (BitTest(wk[i].sieve, k) <=> NoPrimeDivisor(wk[i].low + k, wk[i].b - 1))

\* C8 as stated: in every segment, the first one (low = 1) included, bit i is
\* set iff low + i has no prime divisor up to the last prime sieved.
C8_Original == \A i \in DOMAIN wk : InLoops(i) => SieveIsCoprimes(i, 1)

\* C8: after memset(low) and after the multiples of the primes up to index b
\* have been crossed off, bit i is set iff low + i has no prime divisor
\* <= primes[b], for every number low + i >= 3 of the segment [low, high).
C8_SieveIsCoprimes == \A i \in DOMAIN wk : InLoops(i) => SieveIsCoprimes(i, 3)

\* a worker in the first segment and one in a later segment, both after a
\* cross_off
C8_Witness ==
  /\ s2_pc = "par"
  /\ \E i \in DOMAIN wk :
       InLoops(i) /\ wk[i].low = 1 /\ wk[i].b > Max(2, s2_in.c + 1)
         /\ ~BitTest(wk[i].sieve, 0) /\ BitTest(wk[i].sieve, 1)
  /\ \E i \in DOMAIN wk :
       InLoops(i) /\ wk[i].low > 1 /\ wk[i].b > Max(2, s2_in.c + 1)

\* C9: after cnt_finit and after any number of cross_off calls the counters
\* agree with the sieve: the rank of index i is the number of set bits in
\* [0, i], for every i of the segment.
C9_CountersAgree ==
  \A i \in DOMAIN wk :
    InLoops(i) =>
      \A k \in 0 .. (segment_size - 1) :
        cnt_query(wk[i].counters, k) = BitsIn(wk[i].sieve, 0, k)

\* a later segment where the last cross_off has cleared a bit (k) and has met a
\* bit that was clear already (k2, a multiple of 3)
C9_Witness ==
  \E i \in DOMAIN wk :
    /\ InLoops(i)
    /\ wk[i].low > 1
    /\ s2_in.c >= 2
    /\ wk[i].b > s2_in.c + 1
    /\ LET p == primes[wk[i].b - 1]
       IN /\ \E k \in wk[i].low .. (wk[i].high - 1) :
               k % p = 0 /\ NoPrimeDivisor(k, wk[i].b - 2)
          /\ \E k2 \in wk[i].low .. (wk[i].high - 1) :
               k2 % p = 0 /\ k2 % 2 = 1 /\ k2 % 3 = 0

(***************************************************************************)
(* Claims about the waves of S2: the segments, segment_size and             *)
(* segments_per_thread                                                      *)
(***************************************************************************)
\* the low and the limit that S2_thread computes for thread_num = i in the
\* running wave
WorkerLow(i) == low + segment_size * segments_per_thread * i
WorkerLimit(i) ==
  Min(WorkerLow(i) + segment_size * segments_per_thread, s2_in.limit)

\* the segments <<low, high>> that the segment loop of worker i goes through
AssignedSegments(i) ==
  {<<l, Min(l + segment_size, WorkerLimit(i))>> :
     l \in {WorkerLow(i) + k * segment_size : k \in 0 .. (segments_per_thread - 1)}
           \cap (WorkerLow(i) .. (WorkerLimit(i) - 1))}

\* the segments of all workers of the running wave, and where they end
WaveSegments == UNION {AssignedSegments(i) : i \in 0 .. (threads - 1)}
WaveEnd == CHOOSE e \in {s[2] : s \in WaveSegments} : \A s \in WaveSegments : s[2] <= e

\* the intervals [s[1], s[2]) of S are not empty, pairwise disjoint, and their
\* union is [a, b)
Tiles(S, a, b) ==
  /\ \E s \in S : s[1] = a
  /\ \A s \in S : s[1] < s[2] /\ (s[2] = b \/ \E t \in S : t[1] = s[2])
  /\ \A s, t \in S : s # t => (s[2] <= t[1] \/ t[2] <= s[1])

\* a worker is in a segment [low, high)
InSegment(w) == w.pc \in {"loop1", "loop2", "next_segment"}

\* during a wave: the segments of the workers tile [low, WaveEnd) in the order of
\* the thread index, and a worker is in one of its own segments
C11_State ==
  /\ s2_pc = "par" =>
       /\ DOMAIN wk = 0 .. (threads - 1)
       /\ Tiles(WaveSegments, low, WaveEnd)
       /\ \A i, j \in DOMAIN wk :
            i < j => \A s \in AssignedSegments(i), t \in AssignedSegments(j) : s[2] <= t[1]
       /\ \A i \in DOMAIN wk :
            InSegment(wk[i]) => <<wk[i].low, wk[i].high>> \in AssignedSegments(i)
  /\ s2_pc = "done" => low >= s2_in.limit

\* from one state to the next: the first wave starts at 1, a wave starts where
\* the one before has ended, a worker starts at its low, goes from a segment
\* to the one that starts at its high, and returns after its last segment
C11_Step ==
  /\ low' # low =>
       \/ s2_pc \in {"idle", "done"} /\ s2_pc' = "wave" /\ low' = 1
       \/ /\ s2_pc = "par" /\ s2_pc' = "combine"
          /\ \/ low' = WaveEnd /\ low' < s2_in.limit
             \/ WaveEnd = s2_in.limit /\ low' >= s2_in.limit
  /\ (s2_pc = "par" /\ s2_pc' = "combine") => low' # low
  /\ (s2_pc = "par" /\ s2_pc' = "par") =>
       \A i \in DOMAIN wk :
         /\ (wk[i].pc = "segment" /\ InSegment(wk'[i])) => wk'[i].low = WorkerLow(i)
         /\ (wk[i].pc = "next_segment" /\ wk'[i] # wk[i] /\ InSegment(wk'[i])) =>
              wk'[i].low = wk[i].high /\ wk'[i].low > wk[i].low
         /\ (InSegment(wk[i]) /\ InSegment(wk'[i]) /\ wk'[i].low # wk[i].low) =>
              wk[i].pc = "next_segment"
         /\ (wk[i].pc = "next_segment" /\ wk'[i].pc = "ret") =>
              wk[i].high = WorkerLimit(i)
         /\ (wk[i].pc = "segment" /\ wk'[i].pc = "ret") =>
              AssignedSegments(i) = {}

\* C11: over all waves and workers of S2 the segments [low, high) of the workers
\* are pairwise disjoint and their union is [1, limit), limit = x / y + 1: a
\* worker goes through its segments in increasing low, the range of worker
\* i + 1 starts where the range of worker i ends, and a wave starts where the
\* wave before has ended.
C11_SegmentsTile == []C11_State /\ [][C11_Step]_vars

\* the last wave of a call: two workers with two segments each, the second
\* worker in its second segment, which the limit cuts short
C11_Witness ==
  /\ s2_pc = "par"
  /\ low > 1
  /\ threads >= 2
  /\ segments_per_thread >= 2
  /\ \E i \in DOMAIN wk :
       /\ i >= 1
       /\ InSegment(wk[i])
       /\ wk[i].low > WorkerLow(i)
       /\ wk[i].high = s2_in.limit
       /\ wk[i].high - wk[i].low < segment_size
       /\ wk[i - 1].pc = "ret"

\* n is a power of two
IsPowerOf2(n) == \E k \in 0 .. 30 : n = 2 ^ k

\* C12: at the start of every wave of S2 (and from there to the end of the call)
\* segment_size is a power of two and at least min_segment_size = 64, whatever
\* the inputs, the thread count and the measured times.
C12_SegmentSizePowerOf2 ==
  s2_pc \in {"wave", "par", "combine", "done"} =>
    IsPowerOf2(segment_size) /\ segment_size >= min_segment_size

\* a wave that starts after segment_size has been doubled
C12_Witness ==
  /\ s2_pc = "par"
  /\ low > 1
  /\ segment_size > min_segment_size
  /\ IsPowerOf2(segment_size)
  /\ \A i \in DOMAIN wk : wk[i].pc = "call"

\* all workers of the running wave have returned: the wave is at its barrier
AtBarrier == s2_pc = "par" /\ \A i \in DOMAIN wk : wk[i].pc = "ret"

\* the end of the wave with seconds < 10 being fast
JoinStep(fast) == WaveJoin(fast) /\ UNCHANGED <<bsVars, ptVars, sgVars, rrVars>>

ClampedSegmentsPerThread(lo, ssize, thr, spt) ==
  LET segments == ceil_div(s2_in.limit - lo, ssize)
  IN in_between(1, spt, ceil_div(segments, in_between(1, thr, segments)))

\* C14 as stated: the wave after a wave runs with a segment_size and a
\* segments_per_thread that are not below the ones the wave has run with.
C14_Original ==
  AtBarrier =>
    \A fast \in BOOLEAN :
      ENABLED (JoinStep(fast) /\
        (low' < s2_in.limit =>
           /\ segment_size' >= segment_size
           /\ ClampedSegmentsPerThread(low', segment_size', threads',
                                       segments_per_thread') >= segments_per_thread))

\* a step inside a call of S2 does not decrease segment_size, and decreases
\* segments_per_thread only at the head of the last wave
C14_Step ==
  (s2_pc \in {"wave", "par", "combine"}) =>
    /\ segment_size' >= segment_size
    /\ segments_per_thread' < segments_per_thread =>
         /\ s2_pc = "wave" /\ s2_pc' = "par"
         /\ low + segments_per_thread' * threads' * segment_size >= s2_in.limit
         /\ segments_per_thread' =
              ceil_div(ceil_div(s2_in.limit - low, segment_size), threads')

\* C14: across the waves of one S2 call segment_size never decreases, and the
\* adaptation after a wave never decreases segments_per_thread; only the head
\* of the last wave of the call decreases segments_per_thread, to
\* ceil(segments / threads), when fewer segments are left than it asks for.
C14_ShrinkOnlyInLastWave == [][C14_Step]_vars

\* a wave that runs after both segment_size and segments_per_thread have grown
C14_Witness ==
  /\ s2_pc = "par"
  /\ segment_size > min_segment_size
  /\ segments_per_thread >= 4
  /\ low + segments_per_thread * threads * segment_size < s2_in.limit

(***************************************************************************)
(* Claims about the workers of a wave and the combine loop                 *)
(***************************************************************************)
\* what worker i owns: its locals (the sieve, the counters and next among them)
\* and the vectors phi[i] and mu_sum[i]
Owned(i) == <<wk[i], phi[i], mu_sum[i]>>

\* a step during the parallel for: what the workers share is left as it is,
\* and at most one worker's own state changes
C15_Step ==
  (s2_pc = "par" /\ s2_pc' = "par") =>
    /\ UNCHANGED <<s2_in, low, threads, segment_size, segments_per_thread,
                   S2_total, phi_total>>
    /\ DOMAIN wk' = DOMAIN wk /\ DOMAIN phi' = DOMAIN wk /\ DOMAIN mu_sum' = DOMAIN wk
    /\ \E i \in DOMAIN wk : \A j \in DOMAIN wk \ {i} : Owned(j)' = Owned(j)

\* C15: during a wave of S2 a step of worker i changes only phi[i], mu_sum[i]
\* and the worker's own sieve, counters and next; phi_total and the other
\* variables of S2 are not changed before the barrier.
C15_WorkersWriteTheirOwn == [][C15_Step]_vars

\* two workers in their segments, each with leaves counted in its own vectors
C15_Witness ==
  /\ s2_pc = "par"
  /\ \E i, j \in DOMAIN wk :
       /\ i # j
       /\ InSegment(wk[i]) /\ InSegment(wk[j])
       /\ \E b \in DOMAIN phi[i] : phi[i][b] > 0 /\ mu_sum[i][b] # 0
       /\ \E b \in DOMAIN phi[j] : phi[j][b] > 0 /\ mu_sum[j][b] # 0
       /\ wk[i].sieve # wk[j].sieve

RECURSIVE CarrySum(_, _, _)
\* the sum of phi_tot[k] * mu_sum_i[k] over the vector indices k in 1..j
CarrySum(phi_tot, mu_sum_i, j) ==
  IF j < 1 THEN 0
  ELSE phi_tot[j] * mu_sum_i[j + 1] + CarrySum(phi_tot, mu_sum_i, j - 1)

\* in the combine loop all workers of the wave have returned
C16_State ==
  s2_pc = "combine" =>
    /\ s2_i \in 0 .. threads
    /\ \A i \in DOMAIN wk : wk[i].pc = "ret"

\* the combine loop starts at thread 0 after the barrier, takes the threads one
\* by one in increasing index, uses phi_total[j] as it is before phi[i][j] is
\* added to it, and ends after the last thread; no other step of a call changes
\* phi_total
C16_Step ==
  /\ (s2_pc # "combine" /\ s2_pc' = "combine") =>
       AtBarrier /\ s2_i' = 0 /\ phi_total' = phi_total
  /\ (s2_pc = "combine" /\ s2_pc' = "combine" /\ s2_i' # s2_i) =>
       /\ s2_i < threads
       /\ s2_i' = s2_i + 1
       /\ phi' = phi /\ mu_sum' = mu_sum
       /\ DOMAIN phi_total' = DOMAIN phi_total
       /\ \A j \in DOMAIN phi_total :
            phi_total'[j] =
              phi_total[j] + (IF j >= 1 /\ j < Len(phi[s2_i]) THEN phi[s2_i][j + 1] ELSE 0)
       /\ S2_total' =
            S2_total + CarrySum(phi_total, mu_sum[s2_i], Len(phi[s2_i]) - 1)
  /\ (s2_pc = "combine" /\ s2_i' = s2_i) => phi_total' = phi_total
  /\ (s2_pc = "combine" /\ s2_pc' # "combine") => s2_i = threads
  /\ (s2_pc \in {"wave", "par"} /\ s2_pc' # "combine") => phi_total' = phi_total

\* C16: the combine loop of S2 runs after all workers of the wave have returned
\* and takes them in increasing thread index; when it adds
\* phi_total[j] * mu_sum[i][j] for worker i, phi_total[j] is what it was at the
\* start of the wave plus phi[t][j] of the workers t < i, without phi[i][j].
C16_CombineInOrder == []C16_State /\ [][C16_Step]_vars

\* the combine loop before its last worker in a later wave: phi_total carries
\* the earlier waves and worker 0, and worker 1 has leaves to add
C16_Witness ==
  /\ s2_pc = "combine"
  /\ low > 1 + 2 * segment_size
  /\ threads >= 2
  /\ s2_i = 1
  /\ \E j \in 1 .. (Len(phi[1]) - 1) :
       phi_total[j] > phi[0][j + 1] /\ phi[0][j + 1] > 0 /\ mu_sum[1][j + 1] # 0

(***************************************************************************)
(* Claims about pi_lmo_parallel3's c, next[] and the domain of x           *)
(***************************************************************************)
\* pi_lmo_parallel3 has been called with an x >= 2
LMORunning == lmo # <<>> /\ lmo.x >= 2

\* the largest a >= 0 with primes[a + 1]^2 <= y, 0 if there is none
LargestSquareIndex(y) ==
  Max(0, Cardinality({q \in 2 .. y : IsPrime(q) /\ q * q <= y}) - 1)

\* C17 as stated: c = min(MAX_A, largest a with primes[a + 1]^2 <= y), MAX_A = 7.
C17_Original == LMORunning => lmo.c = Min(7, LargestSquareIndex(lmo.y))

\* C17: pi_lmo_parallel3 uses c = min(MAX_A, pi(y)), pi(y) being the number of
\* primes <= y and MAX_A = 7, for every x >= 2.
C17_CutoffIsMinOfPiY ==
  LMORunning => lmo.c = Min(7, Cardinality({q \in 2 .. lmo.y : IsPrime(q)}))

\* a call where MAX_A is the smaller one, and the primes with a square <= y
\* are fewer than MAX_A
C17_Witness ==
  /\ LMORunning
  /\ lmo.pi_y > 7
  /\ lmo.c = 7
  /\ LargestSquareIndex(lmo.y) < 7

\* n is the smallest odd multiple of p that is >= lo (the odd multiples of an
\* odd p are 2 * p apart; 2 has none)
FirstOddMultiple(n, p, lo) ==
  n >= lo /\ n % p = 0 /\ n % 2 = 1 /\ n - 2 * p < lo

\* init_next_multiples has run and the segment loop has not started
AfterInit(w) == w.pc = "segment"

\* C18 as stated, the part about init_next_multiples: for every b in [1, size)
\* next[b] is the first odd multiple of primes[b] that is >= low.
C18_Original ==
  s2_pc = "par" =>
    \A i \in DOMAIN wk :
      AfterInit(wk[i]) =>
        \A b \in 1 .. (wk[i].size - 1) :
          FirstOddMultiple(wk[i].next[b], primes[b], wk[i].low)

\* after init_next_multiples next[b] is the first odd multiple >= low for
\* b >= 2; in a segment, the b that have been sieved in it (b <= c and the b
\* below the one the loops are at) have their next[b] at the first odd multiple
\* >= high, which is the low of the next segment
C18_State ==
  s2_pc = "par" =>
    \A i \in DOMAIN wk :
      /\ AfterInit(wk[i]) =>
           \A b \in 2 .. (wk[i].size - 1) :
             FirstOddMultiple(wk[i].next[b], primes[b], wk[i].low)
      /\ InSegment(wk[i]) =>
           \A b \in 2 .. (wk[i].b - 1) :
             FirstOddMultiple(wk[i].next[b], primes[b], wk[i].high)

\* a step of a worker that sieves index b in a segment finds next[b] at the
\* first odd multiple >= low of the segment, and next[b] goes on only by
\* multiples of 2 * primes[b]
C18_Step ==
  (s2_pc = "par" /\ s2_pc' = "par") =>
    \A i \in DOMAIN wk :
      /\ (wk[i].pc \in {"loop1", "loop2"} /\ wk'[i].b = wk[i].b + 1) =>
           FirstOddMultiple(wk[i].next[wk[i].b], primes[wk[i].b], wk[i].low)
      /\ (wk[i].pc \in {"segment", "loop1", "loop2", "next_segment"}
            /\ wk'[i].pc # "ret") =>
           \A b \in 2 .. (wk[i].size - 1) :
             /\ wk'[i].next[b] >= wk[i].next[b]
             /\ (wk'[i].next[b] - wk[i].next[b]) % (2 * primes[b]) = 0

\* C18: for each prime index b in [2, size), init_next_multiples sets next[b]
\* to the first odd multiple of primes[b] that is >= low; at the start of every
\* later segment of the same worker in which index b is sieved, next[b] is the
\* smallest odd multiple of primes[b] that is >= that segment's low, and it is
\* advanced only in steps of 2 * primes[b].
C18_NextIsFirstOddMultiple == []C18_State /\ [][C18_Step]_vars

\* a worker in a later segment of its own, after the pre-sieve and a cross_off
\* that started at a next[b] above the low of the worker's first segment
C18_Witness ==
  /\ s2_pc = "par"
  /\ \E i \in DOMAIN wk :
       /\ InSegment(wk[i])
       /\ wk[i].low > WorkerLow(i)
       /\ s2_in.c >= 2
       /\ wk[i].b > s2_in.c + 1
       /\ \A b \in 2 .. (wk[i].b - 1) :
            FirstOddMultiple(wk[i].next[b], primes[b], wk[i].high)

\* C19: a negative x is reported as a failure: the call of pi_lmo_parallel3
\* ends as failed and the caller gets no number.
C19_Original == (lmo # <<>> /\ lmo.x < 0) => lmo.pc = "failed"

(***************************************************************************)
(* Claims about the value of S2                                            *)
(***************************************************************************)
RECURSIVE SumLeavesOfPrime(_, _, _, _)
\* the sum of -mu(m) * phi(x / n, b - 1) over the special leaves n = primes[b] * m
\* with m in 1..m_max: m <= y < n, mu(m) # 0 and lpf(m) > primes[b]
SumLeavesOfPrime(x, y, b, m_max) ==
  IF m_max < 1 THEN 0
  ELSE SumLeavesOfPrime(x, y, b, m_max - 1)
       + (IF primes[b] * m_max > y /\ mu[m_max] # 0 /\ lpf[m_max] > primes[b]
            THEN (0 - mu[m_max]) * Phi(x \div (primes[b] * m_max), b - 1)
            ELSE 0)

RECURSIVE SumLeaves(_, _, _, _)
\* the sum over the special leaves of the prime indices b with c < b <= b_max
SumLeaves(x, y, c, b_max) ==
  IF b_max <= c THEN 0
  ELSE SumLeaves(x, y, c, b_max - 1) + SumLeavesOfPrime(x, y, b_max, y)

\* the contribution of the special leaves with c < b < pi(y)
SpecialLeaves(x, y, c) == SumLeaves(x, y, c, pi[y] - 1)

SgAtLeaves == sg # <<>> /\ sg.pc \in {"leaves", "cross"}

\* in the segment, from the number 3 on, exactly the numbers without a prime
\* divisor among the first a primes have their bit set
SgSieveIsCoprimes(a) ==
  \A k \in 0 .. (sg.high - sg.low - 1) :
    sg.low + k >= 3 => (BitTest(sg.sieve, k) <=> NoPrimeDivisor(sg.low + k, a))

\* while the leaves of index b are visited and phi[b] is refreshed, the
\* multiples of the primes below index b have been crossed off in this
\* segment, the multiples of primes[b] have not, and the counters agree
C21_State ==
  SgAtLeaves =>
    /\ SgSieveIsCoprimes(sg.b - 1)
    /\ \A k \in 0 .. (sg.high - sg.low - 1) :
         cnt_query(sg.counters, k) = BitsIn(sg.sieve, 0, k)

\* b goes up by one at a time, at cross_off; the candidates go from max_m down
\* to min_m + 1 by one; a leaf uses phi[b] and the counters as they are before
\* the refresh and the cross_off of b; the refresh follows the last candidate
C21_Step ==
  (sg # <<>> /\ sg' # <<>> /\ sg' # sg) =>
    /\ (sg.pc \in {"head", "leaves", "cross"}) =>
         /\ sg'.low = sg.low
         /\ sg'.b = IF sg.pc = "cross" THEN sg.b + 1 ELSE sg.b
    /\ (sg.pc = "head" /\ sg'.pc = "leaves") => sg'.m = sg'.max_m
    /\ sg'.pc = "leaves" => sg.pc \in {"head", "leaves"}
    /\ (sg.pc = "leaves" /\ sg'.pc = "leaves") =>
         /\ sg.m > sg.min_m
         /\ sg'.m = sg.m - 1
         /\ sg'.sieve = sg.sieve /\ sg'.counters = sg.counters /\ sg'.phi = sg.phi
         /\ LET m == IF sg.loop = 1 THEN sg.m ELSE primes[sg.m]
                v == sg.x \div (primes[sg.b] * m)
                phi_xn == sg.phi[sg.b + 1] + BitsIn(sg.sieve, 0, v - sg.low)
            IN IF sg.loop = 2 \/ (mu[m] # 0 /\ primes[sg.b] < lpf[m])
                 THEN sg'.S2_thread = sg.S2_thread - (IF sg.loop = 2 THEN -1 ELSE mu[m]) * phi_xn
                 ELSE sg'.S2_thread = sg.S2_thread
    /\ sg'.pc = "cross" =>
         /\ sg.pc = "leaves"
         /\ sg.m = sg.min_m \/ (sg.m = sg.max_m /\ sg.max_m < sg.min_m)
         /\ sg'.sieve = sg.sieve /\ sg'.counters = sg.counters
         /\ sg'.S2_thread = sg.S2_thread
         /\ sg'.phi[sg.b + 1] =
              sg.phi[sg.b + 1] + BitsIn(sg.sieve, 0, (sg.high - 1) - sg.low)
    /\ sg.pc = "cross" =>
         /\ sg'.pc = "head"
         /\ sg'.phi = sg.phi /\ sg'.S2_thread = sg.S2_thread
         /\ \A k \in 0 .. (sg.high - sg.low - 1) :
              BitTest(sg'.sieve, k) <=>
                (BitTest(sg.sieve, k) /\ (sg.low + k) % primes[sg.b] # 0)

\* C21: within a segment of S2_thread b is processed in increasing order; for
\* each b the rank queries of the leaves and the refresh of phi[b] come after
\* the multiples of every primes[b'], b' < b, have been crossed off in this
\* segment and before the multiples of primes[b] are; the candidates m (or l)
\* are visited from max_m down to min_m + 1.
C21_OrderInSegment == []C21_State /\ [][C21_Step]_vars

\* in a later segment, at the last candidate of a b above c + 1, after leaves
\* have been counted, with multiples of primes[b] still in the sieve
C21_Witness ==
  /\ SgAtLeaves
  /\ sg.pc = "leaves"
  /\ sg.low > 1
  /\ sg.b > sg.c + 1
  /\ sg.max_m > sg.min_m + 1
  /\ sg.m = sg.min_m + 1
  /\ sg.mu_sum[sg.b + 1] # 0
  /\ \E k \in 0 .. (sg.high - sg.low - 1) :
       BitTest(sg.sieve, k) /\ (sg.low + k) % primes[sg.b] = 0

(***************************************************************************)
(* Claims about the two parallel loops of PiTable::init                    *)
(***************************************************************************)
\* PiTable::init is running or has run
PTInInit == pt_pc \in {"bits", "count", "done"} /\ pt_arg.limit > pt_arg.cache_limit

\* the chunk of iteration t is not empty
ChunkNotEmpty(t) == ChunkLow(pt_arg, t) < ChunkHigh(pt_arg, t)

\* the words (Seq indices) of the chunk of iteration t
ChunkWords(t) ==
  ((ChunkLow(pt_arg, t) \div WordSpan) + 1) .. ceil_div(ChunkHigh(pt_arg, t), WordSpan)

\* the bits of word w (Seq index) when every prime below limit has its bit
FinalBits(w) ==
  UNION {set_bit_(q % WordSpan) :
           q \in PrimesIn(Max(7, (w - 1) * WordSpan), Min(w * WordSpan, pt_arg.limit))}

\* in the second loop every counts_ slot and every bits word of a chunk that
\* is not empty has its final value; in the first loop no count has been
\* computed
C22_State ==
  /\ (PTInInit /\ pt_pc \in {"count", "done"}) =>
       \A t \in 0 .. (pt_arg.threads - 1) :
         ChunkNotEmpty(t) =>
           /\ counts_[t + 1] =
                Cardinality(PrimesIn(ChunkLow(pt_arg, t), ChunkHigh(pt_arg, t)))
           /\ \A w \in ChunkWords(t) : pi_[w].bits = FinalBits(w)
  /\ (PTInInit /\ pt_pc = "bits") =>
       \A w \in (CacheWords + 1) .. Len(pi_) : pi_[w].count \in {UninitWord.count, 0}

\* the second loop starts when no iteration of the first is left, and changes
\* neither counts_ nor any bits
C22_Step ==
  /\ (pt_pc = "bits" /\ pt_pc' = "count") => pt_todo = {}
  /\ (pt_pc = "count") =>
       /\ counts_' = counts_
       /\ \A w \in DOMAIN pi_ : pi_'[w].bits = pi_[w].bits

\* C22: in PiTable::init no init_count call starts before the init_bits calls
\* of all threads have finished: every counts_[i] and every bits word that
\* init_count reads holds its final value, for any interleaving of the threads.
C22_CountAfterBits == []C22_State /\ [][C22_Step]_vars

\* the second loop with three chunks, the init_count of the last one done
\* before the ones of the first two
C22_Witness ==
  /\ PTInInit
  /\ pt_pc = "count"
  /\ pt_arg.threads = 3
  /\ ChunkNotEmpty(2)
  /\ pt_todo = {0, 1}
  /\ counts_[1] > 0 /\ counts_[2] > 0

\* the numbers of the chunk of iteration t
ChunkInterval(t) == ChunkLow(pt_arg, t) .. (ChunkHigh(pt_arg, t) - 1)

\* thread_dist is a positive multiple of 240, the chunks start at multiples of
\* 240, are disjoint and cover [cache_limit, limit), no word belongs to two
\* chunks, and the words of the cache are as they were copied
C23_State ==
  /\ PTInInit =>
       LET T == 0 .. (pt_arg.threads - 1)
       IN /\ pt_arg.thread_dist > 0
          /\ pt_arg.thread_dist % WordSpan = 0
          /\ \A t \in T : ChunkLow(pt_arg, t) % WordSpan = 0
          /\ \A t, u \in T : t # u => ChunkInterval(t) \cap ChunkInterval(u) = {}
          /\ UNION {ChunkInterval(t) : t \in T} = pt_arg.cache_limit .. (pt_arg.limit - 1)
          /\ \A t, u \in T :
               (t # u /\ ChunkNotEmpty(t) /\ ChunkNotEmpty(u)) =>
                 ChunkWords(t) \cap ChunkWords(u) = {}
          /\ \A t \in T : \A w \in ChunkWords(t) : w > CacheWords
  /\ pt_pc # "new" =>
       \A w \in 1 .. Min(CacheWords, Len(pi_)) : pi_[w] = pi_cache_[w]

\* an iteration of either loop writes only words of its own chunk
C23_Step ==
  PTInInit =>
    \A w \in DOMAIN pi_ :
      (w \in DOMAIN pi_' /\ pi_'[w] # pi_[w]) =>
        \E t \in pt_todo \ pt_todo' : ChunkNotEmpty(t) /\ w \in ChunkWords(t)

\* C23: in PiTable::init thread_dist is a positive multiple of 240 and the
\* chunks [cache_limit + thread_dist*t, min(cache_limit + thread_dist*(t+1),
\* limit)) start at multiples of 240, are pairwise disjoint and cover
\* [cache_limit, limit); no pi_ word is written by two threads and the 128
\* words copied from the cache are not modified.
C23_ChunksTile == []C23_State /\ [][C23_Step]_vars

\* three chunks that are not empty, the last one cut by limit, all written
C23_Witness ==
  /\ PTInInit
  /\ pt_pc = "done"
  /\ pt_arg.threads = 3
  /\ ChunkNotEmpty(2)
  /\ ChunkHigh(pt_arg, 2) = pt_arg.limit
  /\ pt_arg.limit % WordSpan # 0

\* the chunk of iteration t starts at or after limit
ChunkBeyondLimit(t) == ChunkLow(pt_arg, t) >= pt_arg.limit

\* PrimePi(low - 1) for the chunk of iteration t, from the cache and the
\* primes of the chunks before
CountBeforeChunk(t) ==
  pi_cache_[CacheWords].count + popcount64(pi_cache_[CacheWords].bits)
    + Cardinality(PrimesIn(pt_arg.cache_limit, ChunkLow(pt_arg, t)))

\* after an empty chunk come empty chunks only, the counts_ slot of an empty
\* chunk is never written, and in the second loop every slot before a chunk
\* that is not empty has been written
C28_State ==
  PTInInit =>
    LET T == 0 .. (pt_arg.threads - 1)
    IN /\ \A t \in T :
            ChunkBeyondLimit(t) =>
              /\ \A u \in T : u > t => ChunkBeyondLimit(u)
              /\ counts_[t + 1] = UninitCount
       /\ pt_pc \in {"count", "done"} =>
            \A t \in T :
              ~ChunkBeyondLimit(t) =>
                \A i \in 0 .. (t - 1) :
                  ~ChunkBeyondLimit(i) /\ counts_[i + 1] # UninitCount

\* the iteration of an empty chunk writes nothing in either loop, and the
\* first count init_count writes is the one of the written slots before it
C28_Step ==
  PTInInit =>
    \A t \in pt_todo \ pt_todo' :
      /\ ChunkBeyondLimit(t) => (pi_' = pi_ /\ counts_' = counts_)
      /\ (pt_pc = "count" /\ ~ChunkBeyondLimit(t)) =>
           pi_'[(ChunkLow(pt_arg, t) \div WordSpan) + 1].count = CountBeforeChunk(t)

\* C28: in PiTable::init, init_count for thread t reads counts_[i] only for
\* threads i < t whose chunk was not empty, that is only slots an init_bits
\* call has written: when the chunk of thread t is empty, the chunks of all
\* threads after t are empty too and run neither init_bits nor init_count.
C28_ReadsWrittenCounts == []C28_State /\ [][C28_Step]_vars

\* three iterations, the last with an empty chunk, and the init_count of the
\* second chunk has run
C28_Witness ==
  /\ PTInInit
  /\ pt_pc = "count"
  /\ pt_arg.threads = 3
  /\ ChunkBeyondLimit(2)
  /\ ~ChunkBeyondLimit(1)
  /\ 1 \notin pt_todo
  /\ 2 \notin pt_todo
  /\ pi_[(ChunkLow(pt_arg, 1) \div WordSpan) + 1].count = CountBeforeChunk(1)

(***************************************************************************)
(* Claims about the indices of S2_thread                                   *)
(***************************************************************************)
\* i is an index of the sieve and of the counters
SgIndexOk(i) == 0 <= i /\ i < sg.ssize

\* the indices k - low of for (k = next_multiple; k < high; k += prime * 2)
LoopIndices(prime, k, lo, high) ==
  {(k + 2 * prime * j) - lo : j \in {i \in 0 .. sg.ssize : k + 2 * prime * i < high}}

\* the leaf loop stands at a candidate whose leaf is looked up
SgAtLeafQuery ==
  /\ sg.pc = "leaves"
  /\ sg.m > sg.min_m
  /\ sg.loop = 1 => (mu[sg.m] # 0 /\ primes[sg.b] < lpf[sg.m])

\* x / n of the candidate the leaf loop stands at
SgLeafQuotient ==
  sg.x \div (primes[sg.b] * (IF sg.loop = 1 THEN sg.m ELSE primes[sg.m]))

\* C24: every sieve and counter index used in S2_thread lies in
\* [0, segment_size): k - low in the pre-sieve loop and in cross_off,
\* (x / n) - low in every leaf query (so low <= x/n < high for every leaf
\* visited), and (high - 1) - low in the phi refresh, also in a last segment
\* truncated by limit.
C24_IndicesInSegment ==
  sg # <<>> =>
    /\ (sg.pc = "segment" /\ sg.low < sg.limit) =>
         \A b \in 2 .. sg.c :
           \A i \in LoopIndices(primes[b], sg.next[b], sg.low,
                                Min(sg.low + sg.ssize, sg.limit)) : SgIndexOk(i)
    /\ SgAtLeafQuery =>
         /\ sg.low <= SgLeafQuotient
         /\ SgLeafQuotient < sg.high
         /\ SgIndexOk(SgLeafQuotient - sg.low)
    /\ (sg.pc = "leaves" /\ sg.m <= sg.min_m) => SgIndexOk((sg.high - 1) - sg.low)
    /\ sg.pc = "cross" =>
         /\ sg.next[sg.b] >= sg.low
         /\ \A i \in LoopIndices(primes[sg.b], sg.next[sg.b], sg.low, sg.high) :
              SgIndexOk(i)

\* a leaf query in a segment truncated by limit, of the second worker
C24_Witness ==
  /\ sg # <<>>
  /\ SgAtLeafQuery
  /\ sg.high - sg.low < sg.ssize
  /\ sg.low > sg.ssize
  /\ SgLeafQuotient - sg.low > 0

(***************************************************************************)
(* Claims about the termination of S2                                      *)
(***************************************************************************)
\* a call of S2 has begun and has not returned
S2Running == s2_pc \in {"wave", "par", "combine"}

\* a wave moves low by segments_per_thread * threads * segment_size, 64 or more
C25_Step ==
  (s2_pc = "par" /\ s2_pc' = "combine") =>
    /\ low' = low + segments_per_thread * threads * segment_size
    /\ low' >= low + min_segment_size
    /\ s2_in.limit - low' < s2_in.limit - low

\* C25: the wave loop of S2 terminates for every input with y > 0 and every
\* sequence of measured wave times: each wave advances low by
\* segments_per_thread * threads * segment_size, which is at least 64, so
\* low >= limit is reached after finitely many waves.
C25_WaveLoopTerminates == [][C25_Step]_vars /\ (S2Running ~> (s2_pc = "done"))

\* S2 has returned after three segments in two waves or more, of which one
\* doubled segments_per_thread
C25_Witness ==
  /\ s2_pc = "done"
  /\ low >= s2_in.limit
  /\ s2_in.limit > 2 * segment_size
  /\ s2_in.threads = 1
  /\ segments_per_thread >= 2

(***************************************************************************)
(* Claims about goto next_segment                                          *)
(***************************************************************************)
\* n = primes[b] * m is a special leaf: m <= y < n, mu(m) # 0, lpf(m) > primes[b]
IsLeaf(b, m) ==
  /\ m <= s2_in.y
  /\ primes[b] * m > s2_in.y
  /\ mu[m] # 0
  /\ lpf[m] > primes[b]

\* worker w has left its segment through goto next_segment at index w.b
LeftByGoto(w) == w.pc = "next_segment" /\ w.b < Min(s2_in.pi_y, w.size)

\* worker w stands at an iteration b whose test sends it to next_segment
GotoTaken(w) ==
  LET prime == primes[w.b]
      q == Min(s2_in.x \div (prime * w.low), s2_in.y)
  IN \/ w.pc = "loop1" /\ prime >= q
     \/ w.pc = "loop2" /\ prime >= primes[pi[q]]

RECURSIVE PhiBefore(_, _)
\* phi_total[j] as worker i of the wave gets it in the combine loop: the value
\* before the wave and the phi[t][j] of the workers before i
PhiBefore(i, j) ==
  IF i = 0 THEN phi_total[j]
  ELSE PhiBefore(i - 1, j) + (IF j + 1 <= Len(phi[i - 1]) THEN phi[i - 1][j + 1] ELSE 0)

\* a worker that has left a segment through goto at b: no index from b on has
\* a leaf whose x / n is in that segment or after it.  A worker at an
\* iteration that does not leave: next[b] is the first odd multiple in or
\* after the segment.  At the barrier: a mu_sum[j] that is not 0 meets the
\* full count of the numbers below the low of the worker
C26_State ==
  /\ s2_pc = "par" =>
       \A i \in DOMAIN wk :
         /\ LeftByGoto(wk[i]) =>
              \A b \in wk[i].b .. (s2_in.pi_y - 1) :
                \A m \in 1 .. s2_in.y :
                  IsLeaf(b, m) => s2_in.x \div (primes[b] * m) < wk[i].low
         /\ (wk[i].pc \in {"loop1", "loop2"} /\ ~GotoTaken(wk[i])) =>
              /\ wk[i].next[wk[i].b] >= wk[i].low
              /\ wk[i].next[wk[i].b] - 2 * primes[wk[i].b] < wk[i].low
              /\ wk[i].next[wk[i].b] % primes[wk[i].b] = 0
  /\ AtBarrier =>
       \A i \in DOMAIN wk :
         \A j \in 1 .. (Len(mu_sum[i]) - 1) :
           mu_sum[i][j + 1] # 0 => PhiBefore(i, j) = Phi(WorkerLow(i) - 1, j - 1)

\* a step that finds leaves at index j in a segment: no worker of the wave has
\* left that segment or one before it through a goto at j or below
C26_Step ==
  s2_pc = "par" =>
    \A i \in DOMAIN wk :
      (wk[i].pc \in {"loop1", "loop2"} /\ mu_sum'[i] # mu_sum[i]) =>
        \A k \in DOMAIN wk :
          (LeftByGoto(wk[k]) /\ wk[k].b <= wk[i].b) => wk[k].low > wk[i].low

\* C26: if S2_thread leaves a segment through goto next_segment at index b,
\* no index b' >= b has a special leaf in that segment or in a later segment
\* of any worker or wave; the phi[b'] and next[b'] that were not refreshed in
\* the skipped part, and the phi_total[b'] they give, are never again
\* combined with a mu_sum[b'] that is not 0 nor used to index the sieve.
C26_GotoSkipsNoLeaf == []C26_State /\ [][C26_Step]_vars

\* at the barrier a worker has a phi_total[j] that is not the full count (its
\* refresh was skipped by a goto of a worker before) and a mu_sum[j] of 0,
\* and another index with a mu_sum that is not 0
C26_Witness ==
  /\ AtBarrier
  /\ \E i \in DOMAIN wk :
       /\ i >= 1
       /\ \E j \in 1 .. (Len(mu_sum[i]) - 1) :
            mu_sum[i][j + 1] = 0 /\ PhiBefore(i, j) # Phi(WorkerLow(i) - 1, j - 1)
       /\ \E j \in 1 .. (Len(mu_sum[i]) - 1) : mu_sum[i][j + 1] # 0

(***************************************************************************)
(* Claims about the arguments of S2                                        *)
(***************************************************************************)
\* C27: every call of S2 made by pi_lmo_parallel3, for any x >= 2, satisfies
\* the precondition that S2 documents: y > 0 and c > 1.
C27_Original ==
  (LMORunning /\ lmo.pc = "S2" /\ s2_pc # "idle") => (s2_in.y > 0 /\ s2_in.c > 1)

(***************************************************************************)
(* Claims about the early return of S2_thread                              *)
(***************************************************************************)
\* size - 1 of worker i of the running wave is at most c
EarlyExit(i) ==
  pi[Min(isqrt(s2_in.x \div WorkerLow(i)), s2_in.y)] <= s2_in.c

\* a worker with size - 1 <= c that has run has returned 0 and its phi and
\* mu_sum are empty; with c = pi(y) every worker is one of these, and S2 returns 0
C29_State ==
  /\ s2_pc = "par" =>
       \A i \in DOMAIN wk :
         /\ (EarlyExit(i) /\ wk[i].pc # "call") =>
              /\ wk[i].pc = "ret"
              /\ wk[i].S2_thread = 0
              /\ phi[i] = <<>>
              /\ mu_sum[i] = <<>>
         /\ s2_in.c = s2_in.pi_y => EarlyExit(i)
  /\ (s2_pc \in {"wave", "par", "combine", "done"} /\ s2_in.c = s2_in.pi_y) =>
       /\ S2_total = 0
       /\ \A j \in DOMAIN phi_total : phi_total[j] = 0
  /\ (LMORunning /\ lmo.pi_y <= MAX_A) => lmo.c = lmo.pi_y

\* the combine step of a worker with empty vectors adds nothing
C29_Step ==
  (s2_pc = "combine" /\ s2_i < threads /\ s2_i' = s2_i + 1 /\ phi[s2_i] = <<>>) =>
    (S2_total' = S2_total /\ phi_total' = phi_total)

\* C29: when a worker's size - 1 = pi[min(isqrt(x / low), y)] is at most c,
\* S2_thread returns 0 and leaves its phi and mu_sum vectors empty, so the
\* combine step adds nothing for that worker and leaves phi_total unchanged;
\* when pi(y) <= PhiTiny::MAX_A (so c = pi(y)) every worker of every wave takes
\* this exit and S2 returns 0.
C29_EarlyReturnAddsNothing == []C29_State /\ [][C29_Step]_vars

\* the combine loop is at a worker that returned early, after a worker of the
\* same wave that found leaves
C29_Witness ==
  /\ s2_pc = "combine"
  /\ s2_i >= 1
  /\ s2_i < threads
  /\ phi[s2_i] = <<>>
  /\ phi[s2_i - 1] # <<>>
  /\ S2_total # 0
  /\ \E j \in DOMAIN phi_total : phi_total[j] > 0

(***************************************************************************)
(* Claims about RiemannR_inverse                                           *)
(***************************************************************************)
\* C30: RiemannR_inverse(x) on an integer type T never converts a value that
\* T does not hold: when the floating-point inverse exceeds
\* numeric_limits<T>::max() it returns exactly numeric_limits<T>::max(),
\* otherwise the truncated floating-point result; and its Newton iteration
\* always stops, after at most 100 steps or at the first step whose |term|
\* is not smaller than the one before.
C30_Original ==
  (rr # <<>> /\ rr.pc = "ret") =>
    /\ ~rr.out_of_range
    /\ rr.res > TMax => rr.result = TMax
    /\ rr.res <= TMax => rr.result = rr.res
    /\ rr.i <= NewtonIters
    /\ (rr.x >= 3 /\ rr.i < NewtonIters) => Abs(rr.term) >= Abs(rr.old_term)

=============================================================================
